---------------------------- MODULE Spec2Model ----------------------------
(***************************************************************************)
(* Subscription overlap detection and consolidation suggestions of         *)
(* packages/backend/convex/subscriptions.ts: the competitor map, the name  *)
(* canonicalizer, the edit-distance similarity, the pair classifier and    *)
(* the greedy clustering loop shared by the two query handlers             *)
(* getOverlapDetection and getConsolidationSuggestions.                    *)
(*                                                                         *)
(* A JavaScript string is a sequence of one-character strings, so that     *)
(* charAt, length and the regular-expression replacements are computed     *)
(* character by character.  A monthly cost is a rational number of cents;  *)
(* it is kept as an integer number of 1/CostScale cents, which represents  *)
(* cost/12, cost/3, cost/6, cost*4.33 and cost*0.15 exactly.               *)
(*                                                                         *)
(* Six specifications share the variables: Spec and SpecMany run the two   *)
(* queries on a table given at the start, SpecOps builds the table with    *)
(* the mutations of the same file before a query, SpecApply cancels what   *)
(* a result recommends to cancel and queries again, SpecTwo runs two       *)
(* invocations of the queries at once, and SpecCalls calls the helper      *)
(* functions on their own.                                                 *)
(***************************************************************************)
EXTENDS Integers, Sequences, FiniteSets, TLC

(***************************************************************************)
(* Bound of the model: the number of rows of the subscriptions table.      *)
(***************************************************************************)
MaxSubs == 3

(***************************************************************************)
(* SERVICE_OVERLAPS, subscriptions.ts:1193-1250, key by key.  The LET       *)
(* spells the service names that occur in it.                              *)
(***************************************************************************)
SERVICE_OVERLAPS ==
  LET netflix == <<"n", "e", "t", "f", "l", "i", "x">>
      prime_video == <<"p", "r", "i", "m", "e", "_", "v", "i", "d", "e", "o">>
      disney_plus == <<"d", "i", "s", "n", "e", "y", "_", "p", "l", "u", "s">>
      apple_tv_plus == <<"a", "p", "p", "l", "e", "_", "t", "v", "_", "p", "l", "u", "s">>
      hulu == <<"h", "u", "l", "u">>
      hbo_max == <<"h", "b", "o", "_", "m", "a", "x">>
      paramount_plus == <<"p", "a", "r", "a", "m", "o", "u", "n", "t", "_", "p", "l", "u", "s">>
      spotify == <<"s", "p", "o", "t", "i", "f", "y">>
      apple_music == <<"a", "p", "p", "l", "e", "_", "m", "u", "s", "i", "c">>
      amazon_music == <<"a", "m", "a", "z", "o", "n", "_", "m", "u", "s", "i", "c">>
      youtube_music == <<"y", "o", "u", "t", "u", "b", "e", "_", "m", "u", "s", "i", "c">>
      tidal == <<"t", "i", "d", "a", "l">>
      pandora == <<"p", "a", "n", "d", "o", "r", "a">>
      google_drive == <<"g", "o", "o", "g", "l", "e", "_", "d", "r", "i", "v", "e">>
      icloud == <<"i", "c", "l", "o", "u", "d">>
      dropbox == <<"d", "r", "o", "p", "b", "o", "x">>
      onedrive == <<"o", "n", "e", "d", "r", "i", "v", "e">>
      box == <<"b", "o", "x">>
      microsoft_365 == <<"m", "i", "c", "r", "o", "s", "o", "f", "t", "_", "3", "6", "5">>
      google_workspace == <<"g", "o", "o", "g", "l", "e", "_", "w", "o", "r", "k", "s", "p", "a", "c", "e">>
      apple_iwork == <<"a", "p", "p", "l", "e", "_", "i", "w", "o", "r", "k">>
      lastpass == <<"l", "a", "s", "t", "p", "a", "s", "s">>
      w_1password == <<"1", "p", "a", "s", "s", "w", "o", "r", "d">>
      bitwarden == <<"b", "i", "t", "w", "a", "r", "d", "e", "n">>
      dashlane == <<"d", "a", "s", "h", "l", "a", "n", "e">>
      keeper == <<"k", "e", "e", "p", "e", "r">>
      nordvpn == <<"n", "o", "r", "d", "v", "p", "n">>
      expressvpn == <<"e", "x", "p", "r", "e", "s", "s", "v", "p", "n">>
      surfshark == <<"s", "u", "r", "f", "s", "h", "a", "r", "k">>
      cyberghost == <<"c", "y", "b", "e", "r", "g", "h", "o", "s", "t">>
      pia == <<"p", "i", "a">>
      protonvpn == <<"p", "r", "o", "t", "o", "n", "v", "p", "n">>
      gmail == <<"g", "m", "a", "i", "l">>
      outlook == <<"o", "u", "t", "l", "o", "o", "k">>
      yahoo_mail == <<"y", "a", "h", "o", "o", "_", "m", "a", "i", "l">>
      protonmail == <<"p", "r", "o", "t", "o", "n", "m", "a", "i", "l">>
      zoom == <<"z", "o", "o", "m">>
      teams == <<"t", "e", "a", "m", "s">>
      google_meet == <<"g", "o", "o", "g", "l", "e", "_", "m", "e", "e", "t">>
      webex == <<"w", "e", "b", "e", "x">>
      gotomeeting == <<"g", "o", "t", "o", "m", "e", "e", "t", "i", "n", "g">>
  IN
     (netflix :> << prime_video, disney_plus, apple_tv_plus, hulu, hbo_max, paramount_plus >>)
  @@ (prime_video :> << netflix, disney_plus, apple_tv_plus, hulu, hbo_max, paramount_plus >>)
  @@ (disney_plus :> << netflix, prime_video, apple_tv_plus, hulu, hbo_max, paramount_plus >>)
  @@ (apple_tv_plus :> << netflix, prime_video, disney_plus, hulu, hbo_max, paramount_plus >>)
  @@ (hulu :> << netflix, prime_video, disney_plus, apple_tv_plus, hbo_max, paramount_plus >>)
  @@ (hbo_max :> << netflix, prime_video, disney_plus, apple_tv_plus, hulu, paramount_plus >>)
  @@ (paramount_plus :> << netflix, prime_video, disney_plus, apple_tv_plus, hulu, hbo_max >>)
  @@ (spotify :> << apple_music, amazon_music, youtube_music, tidal, pandora >>)
  @@ (apple_music :> << spotify, amazon_music, youtube_music, tidal, pandora >>)
  @@ (amazon_music :> << spotify, apple_music, youtube_music, tidal, pandora >>)
  @@ (youtube_music :> << spotify, apple_music, amazon_music, tidal, pandora >>)
  @@ (tidal :> << spotify, apple_music, amazon_music, youtube_music, pandora >>)
  @@ (pandora :> << spotify, apple_music, amazon_music, youtube_music, tidal >>)
  @@ (google_drive :> << icloud, dropbox, onedrive, box >>)
  @@ (icloud :> << google_drive, dropbox, onedrive, box >>)
  @@ (dropbox :> << google_drive, icloud, onedrive, box >>)
  @@ (onedrive :> << google_drive, icloud, dropbox, box >>)
  @@ (box :> << google_drive, icloud, dropbox, onedrive >>)
  @@ (microsoft_365 :> << google_workspace, apple_iwork >>)
  @@ (google_workspace :> << microsoft_365, apple_iwork >>)
  @@ (apple_iwork :> << microsoft_365, google_workspace >>)
  @@ (lastpass :> << w_1password, bitwarden, dashlane, keeper >>)
  @@ (w_1password :> << lastpass, bitwarden, dashlane, keeper >>)
  @@ (bitwarden :> << lastpass, w_1password, dashlane, keeper >>)
  @@ (dashlane :> << lastpass, w_1password, bitwarden, keeper >>)
  @@ (keeper :> << lastpass, w_1password, bitwarden, dashlane >>)
  @@ (nordvpn :> << expressvpn, surfshark, cyberghost, pia, protonvpn >>)
  @@ (expressvpn :> << nordvpn, surfshark, cyberghost, pia, protonvpn >>)
  @@ (surfshark :> << nordvpn, expressvpn, cyberghost, pia, protonvpn >>)
  @@ (cyberghost :> << nordvpn, expressvpn, surfshark, pia, protonvpn >>)
  @@ (pia :> << nordvpn, expressvpn, surfshark, cyberghost, protonvpn >>)
  @@ (protonvpn :> << nordvpn, expressvpn, surfshark, cyberghost, pia >>)
  @@ (gmail :> << outlook, yahoo_mail, protonmail >>)
  @@ (outlook :> << gmail, yahoo_mail, protonmail >>)
  @@ (yahoo_mail :> << gmail, outlook, protonmail >>)
  @@ (protonmail :> << gmail, outlook, yahoo_mail >>)
  @@ (zoom :> << teams, google_meet, webex, gotomeeting >>)
  @@ (teams :> << zoom, google_meet, webex, gotomeeting >>)
  @@ (google_meet :> << zoom, teams, webex, gotomeeting >>)
  @@ (webex :> << zoom, teams, google_meet, gotomeeting >>)
  @@ (gotomeeting :> << zoom, teams, google_meet, webex >>)

(***************************************************************************)
(* SERVICE_OVERLAPS[currentNormalized] || [] (line 1335).  The map is a    *)
(* plain object literal, so the lookup also finds the properties inherited *)
(* from Object.prototype.  A canonical name is lower-case and has no       *)
(* leading or trailing underscore, so the only inherited property it can   *)
(* spell is "constructor", whose value is a function: truthy, and not an   *)
(* array: isArray is FALSE for it, and calling .includes on it throws a    *)
(* TypeError.                                                              *)
(***************************************************************************)
InheritedKeys == { <<"c", "o", "n", "s", "t", "r", "u", "c", "t", "o", "r">> }

\* the list found without its first name
KnownOverlapsWithoutFirst(currentNormalized) ==
  IF currentNormalized \in DOMAIN SERVICE_OVERLAPS
    THEN [isArray |-> TRUE, items |-> Tail(SERVICE_OVERLAPS[currentNormalized])]
    ELSE IF currentNormalized \in InheritedKeys
      THEN [isArray |-> FALSE, items |-> << >>]
      ELSE [isArray |-> TRUE, items |-> << >>]

KnownOverlaps(currentNormalized) ==
  IF currentNormalized \in DOMAIN SERVICE_OVERLAPS
    THEN [isArray |-> TRUE, items |-> SERVICE_OVERLAPS[currentNormalized]]
    ELSE IF currentNormalized \in InheritedKeys
      THEN [isArray |-> FALSE, items |-> << >>]
      ELSE [isArray |-> TRUE, items |-> << >>]

\* Array.prototype.includes
Includes(array, x) == \E k \in 1..Len(array) : array[k] = x

(***************************************************************************)
(* Characters: String.prototype.toLowerCase, and the classes \s and \w of  *)
(* the regular expressions of normalizeServiceName.                        *)
(***************************************************************************)
UpperCase ==
  << "A", "B", "C", "D", "E", "F", "G", "H", "I", "J", "K", "L", "M",
     "N", "O", "P", "Q", "R", "S", "T", "U", "V", "W", "X", "Y", "Z" >>

LowerCase ==
  << "a", "b", "c", "d", "e", "f", "g", "h", "i", "j", "k", "l", "m",
     "n", "o", "p", "q", "r", "s", "t", "u", "v", "w", "x", "y", "z" >>

Digits == { "0", "1", "2", "3", "4", "5", "6", "7", "8", "9" }

WhiteSpace == { " ", "\t" }

IsWordChar(c) ==
  \/ \E k \in 1..Len(LowerCase) : c = LowerCase[k] \/ c = UpperCase[k]
  \/ c \in Digits
  \/ c = "_"

toLowerCaseChar(c) ==
  IF \E k \in 1..Len(UpperCase) : UpperCase[k] = c
    THEN LowerCase[CHOOSE k \in 1..Len(UpperCase) : UpperCase[k] = c]
    ELSE c

toLowerCase(s) == [k \in 1..Len(s) |-> toLowerCaseChar(s[k])]

\* .replace(/\s+/g, '_'): every maximal run of white space becomes one '_'
RECURSIVE ReplaceWhiteSpaceRuns(_)
ReplaceWhiteSpaceRuns(s) ==
  IF s = << >> THEN << >>
  ELSE IF Head(s) \in WhiteSpace
    THEN IF Len(s) > 1 /\ s[2] \in WhiteSpace
           THEN ReplaceWhiteSpaceRuns(Tail(s))
           ELSE << "_" >> \o ReplaceWhiteSpaceRuns(Tail(s))
    ELSE << Head(s) >> \o ReplaceWhiteSpaceRuns(Tail(s))

\* .replace(/[^\w_]/g, ''): every character that is not a word character goes
StripNonWord(s) == SelectSeq(s, IsWordChar)

\* .replace(/_+/g, '_'): every maximal run of '_' becomes one '_'
RECURSIVE CollapseUnderscores(_)
CollapseUnderscores(s) ==
  IF s = << >> THEN << >>
  ELSE IF Head(s) = "_" /\ Len(s) > 1 /\ s[2] = "_"
    THEN CollapseUnderscores(Tail(s))
    ELSE << Head(s) >> \o CollapseUnderscores(Tail(s))

\* .replace(/^_|_$/g, ''): one '_' at the start goes, then one '_' at the end
\* only the '_' at the start goes
TrimLeadingUnderscore(s) == IF s # << >> /\ Head(s) = "_" THEN Tail(s) ELSE s

TrimUnderscores(s) ==
  LET t == IF s # << >> /\ Head(s) = "_" THEN Tail(s) ELSE s
  IN  IF t # << >> /\ t[Len(t)] = "_" THEN SubSeq(t, 1, Len(t) - 1) ELSE t

normalizeServiceName(name) ==
  TrimUnderscores(CollapseUnderscores(StripNonWord(
    ReplaceWhiteSpaceRuns(toLowerCase(name)))))

(***************************************************************************)
(* levenshteinDistance, lines 1273-1299: the full matrix, row by row.      *)
(* Row i holds matrix[i][0..str1.length]; column j is at index j + 1.      *)
(***************************************************************************)
\* the minimum taken without the substitution
MinWithoutFirst(a, b, c) == IF b <= c THEN b ELSE c

Min3(a, b, c) ==
  IF a <= b /\ a <= c THEN a ELSE IF b <= c THEN b ELSE c

RECURSIVE LevFillRow(_, _, _, _, _)
LevFillRow(prevRow, row, row_i, str1, str2) ==
  LET j == Len(row)
  IN  IF j > Len(str1) THEN row
      ELSE LET cell ==
                 IF str2[row_i] = str1[j]
                   THEN prevRow[j]
                   ELSE Min3(prevRow[j] + 1, row[j] + 1, prevRow[j + 1] + 1)
           IN  LevFillRow(prevRow, Append(row, cell), row_i, str1, str2)

RECURSIVE LevRows(_, _, _, _)
LevRows(prevRow, row_i, str1, str2) ==
  IF row_i > Len(str2) THEN prevRow
  ELSE LevRows(LevFillRow(prevRow, << row_i >>, row_i, str1, str2), row_i + 1, str1, str2)

\* the first row of the matrix counted from 1 instead of 0
LevenshteinFirstRowFromOne(str1, str2) ==
  LevRows([j \in 1..(Len(str1) + 1) |-> j], 1, str1, str2)[Len(str1) + 1]

levenshteinDistance(str1, str2) ==
  LevRows([j \in 1..(Len(str1) + 1) |-> j - 1], 1, str1, str2)[Len(str1) + 1]

(***************************************************************************)
(* calculateSimilarity, lines 1262-1270.  The result is the fraction       *)
(* num/den, kept exact; 1.0 is 1/1.                                        *)
(***************************************************************************)
\* the distance measured against the first string, not the longer one
SimilarityOverFirst(str1, str2) ==
  IF Len(str1) = 0 THEN [num |-> 1, den |-> 1]
  ELSE [num |-> Len(str1) - levenshteinDistance(str1, str2),
        den |-> Len(str1)]

calculateSimilarity(str1, str2) ==
  LET longer  == IF Len(str1) > Len(str2) THEN str1 ELSE str2
      shorter == IF Len(str1) > Len(str2) THEN str2 ELSE str1
  IN  IF Len(longer) = 0 THEN [num |-> 1, den |-> 1]
      ELSE [num |-> Len(longer) - levenshteinDistance(longer, shorter),
            den |-> Len(longer)]

\* the comparison written >= instead of >
AtLeastTenths(sim, tenths) == 10 * sim.num >= tenths * sim.den

\* similarity > tenths/10, the comparisons of lines 1359 and 1369
MoreThanTenths(sim, tenths) == 10 * sim.num > tenths * sim.den

(***************************************************************************)
(* The pair classifier: the body of the inner loop, lines 1340-1375.       *)
(* Scores are in tenths: 0.3, 0.7, 0.5, 0.4 and the threshold 0.6.         *)
(***************************************************************************)
CategoryWeight == 3
KnownWeight == 7
NameWeight == 5
ProviderWeight == 4
OverlapThreshold == 6
NameSimilarityTenths == 7
ProviderSimilarityTenths == 8

\* the four tests of lines 1347, 1352, 1359 and 1369, each made once
Signals(currentSub, compareSub, knownOverlaps) ==
  LET currentNormalized == normalizeServiceName(currentSub.name)
      compareNormalized == normalizeServiceName(compareSub.name)
      nameSimilarity == calculateSimilarity(currentNormalized, compareNormalized)
      providerSimilarity == calculateSimilarity(toLowerCase(currentSub.provider),
                                                toLowerCase(compareSub.provider))
  IN  [sameCategory |-> currentSub.category = compareSub.category,
       knownCompetitor |-> Includes(knownOverlaps.items, compareNormalized),
       similarNames |-> MoreThanTenths(nameSimilarity, NameSimilarityTenths),
       similarProviders |-> MoreThanTenths(providerSimilarity, ProviderSimilarityTenths)]

\* equal categories alone reach the threshold
OverlapScoreFromCategory(signals) ==
    (IF signals.sameCategory THEN OverlapThreshold ELSE 0)
  + (IF signals.knownCompetitor THEN KnownWeight ELSE 0)
  + (IF signals.similarNames THEN NameWeight ELSE 0)
  + (IF signals.similarProviders THEN ProviderWeight ELSE 0)

\* similar names weighted like a known competitor: they alone make an overlap
OverlapScoreNamesAlone(signals) ==
    (IF signals.sameCategory THEN CategoryWeight ELSE 0)
  + (IF signals.knownCompetitor THEN KnownWeight ELSE 0)
  + (IF signals.similarNames THEN KnownWeight ELSE 0)
  + (IF signals.similarProviders THEN ProviderWeight ELSE 0)

OverlapScore(signals) ==
    (IF signals.sameCategory THEN CategoryWeight ELSE 0)
  + (IF signals.knownCompetitor THEN KnownWeight ELSE 0)
  + (IF signals.similarNames THEN NameWeight ELSE 0)
  + (IF signals.similarProviders THEN ProviderWeight ELSE 0)

\* overlapReason = overlapReason || '...': the first signal that fired names it
OverlapReason(signals) ==
  IF signals.knownCompetitor THEN "Known competing service"
  ELSE IF signals.similarNames THEN "Similar service names"
  ELSE IF signals.similarProviders THEN "Same provider"
  ELSE ""

\* a threshold that an equal category alone reaches
IsOverlapFromCategory(overlapScore) == overlapScore >= CategoryWeight

IsOverlap(overlapScore) == overlapScore >= OverlapThreshold

\* One classification: threw is TRUE when knownOverlaps.includes is not callable
ClassifyPair(currentSub, compareSub) ==
  LET knownOverlaps == KnownOverlaps(normalizeServiceName(currentSub.name))
      signals == Signals(currentSub, compareSub, knownOverlaps)
  IN  IF ~knownOverlaps.isArray
        THEN [threw |-> TRUE, overlapScore |-> 0, overlapReason |-> ""]
        ELSE [threw |-> FALSE,
              overlapScore  |-> OverlapScore(signals),
              overlapReason |-> OverlapReason(signals)]

(***************************************************************************)
(* The inner loop of one anchor, lines 1337-1383, from candidate j on.     *)
(* st carries processedIds, overlappingServices, the record of the         *)
(* classifications made, and whether the loop was left by an exception.    *)
(***************************************************************************)
\* the candidate is not recorded as processed
MarkNothing(ids, id) == ids

\* only the subscription next to the anchor is a candidate
InnerLoopOneCandidate(subs, anchor_i, j, st) ==
  IF j > Len(subs) THEN st
  ELSE
    LET c == ClassifyPair(subs[anchor_i], subs[j])
        entry == [anchor |-> subs[anchor_i].id, candidate |-> subs[j].id,
                  threw |-> c.threw,
                  overlapScore |-> c.overlapScore,
                  overlapReason |-> c.overlapReason]
    IN  IF subs[j].id \in st.processedIds THEN st
        ELSE IF c.threw
          THEN [st EXCEPT !.threw = TRUE, !.classified = Append(@, entry)]
        ELSE IF c.overlapScore >= OverlapThreshold
          THEN [st EXCEPT
                  !.overlappingServices =
                     Append(@, [subscription  |-> subs[j],
                                overlapScore  |-> c.overlapScore,
                                overlapReason |-> c.overlapReason]),
                  !.processedIds = @ \cup {subs[j].id},
                  !.classified = Append(@, entry)]
          ELSE [st EXCEPT !.classified = Append(@, entry)]

\* processedIds.add(compareSub._id), line 1381
MarkProcessed(ids, id) == ids \cup {id}

RECURSIVE InnerLoop(_, _, _, _)
InnerLoop(subs, anchor_i, j, st) ==
  IF j > Len(subs) \/ st.threw THEN st
  ELSE IF subs[j].id \in st.processedIds THEN InnerLoop(subs, anchor_i, j + 1, st)
  ELSE
    LET c == ClassifyPair(subs[anchor_i], subs[j])
        entry == [anchor |-> subs[anchor_i].id, candidate |-> subs[j].id,
                  threw |-> c.threw,
                  overlapScore |-> c.overlapScore,
                  overlapReason |-> c.overlapReason]
    IN  IF c.threw
          THEN [st EXCEPT !.threw = TRUE, !.classified = Append(@, entry)]
          ELSE IF IsOverlap(c.overlapScore)
            THEN InnerLoop(subs, anchor_i, j + 1,
                   [st EXCEPT
                      !.overlappingServices =
                         Append(@, [subscription  |-> subs[j],
                                    overlapScore  |-> c.overlapScore,
                                    overlapReason |-> c.overlapReason]),
                      !.processedIds = MarkProcessed(@, subs[j].id),
                      !.classified = Append(@, entry)])
            ELSE InnerLoop(subs, anchor_i, j + 1,
                   [st EXCEPT !.classified = Append(@, entry)])

(***************************************************************************)
(* Monthly cost, lines 1394-1398, in 1/CostScale cents: CostScale is a     *)
(* multiple of 12, 3, 6 and 100/gcd(433, 100), so every division is exact. *)
(***************************************************************************)
CostScale == 300

MonthlyCost(sub) ==
  IF sub.billingCycle = "yearly" THEN (sub.cost * CostScale) \div 12
  ELSE IF sub.billingCycle = "quarterly" THEN (sub.cost * CostScale) \div 3
  ELSE IF sub.billingCycle = "biannual" THEN (sub.cost * CostScale) \div 6
  ELSE IF sub.billingCycle = "weekly" THEN (sub.cost * 433 * CostScale) \div 100
  ELSE sub.cost * CostScale

\* a month counted as four weeks
getMonthlyCostFourWeeks(cost, billingCycle) ==
  CASE billingCycle = "yearly"    -> (cost * CostScale) \div 12
    [] billingCycle = "quarterly" -> (cost * CostScale) \div 3
    [] billingCycle = "biannual"  -> (cost * CostScale) \div 6
    [] billingCycle = "weekly"    -> cost * 4 * CostScale
    [] OTHER                      -> cost * CostScale

\* the helper getMonthlyCost, lines 3048-3062, in 1/CostScale cents
getMonthlyCost(cost, billingCycle) ==
  CASE billingCycle = "yearly"    -> (cost * CostScale) \div 12
    [] billingCycle = "quarterly" -> (cost * CostScale) \div 3
    [] billingCycle = "biannual"  -> (cost * CostScale) \div 6
    [] billingCycle = "weekly"    -> (cost * 433 * CostScale) \div 100
    [] billingCycle = "monthly"   -> cost * CostScale
    [] OTHER                      -> cost * CostScale

WithMonthlyCost(sub) ==
  [id |-> sub.id, userId |-> sub.userId, name |-> sub.name,
   provider |-> sub.provider, category |-> sub.category, cost |-> sub.cost,
   currency |-> sub.currency, billingCycle |-> sub.billingCycle,
   status |-> sub.status, usageFrequency |-> sub.usageFrequency,
   monthlyCost |-> MonthlyCost(sub)]

(***************************************************************************)
(* The sort of lines 1402-1409.  Array.prototype.sort is stable.           *)
(***************************************************************************)
NoUsage == "undefined"

usagePriority(usageFrequency) ==
  CASE usageFrequency = "daily"   -> 4
    [] usageFrequency = "weekly"  -> 3
    [] usageFrequency = "monthly" -> 2
    [] usageFrequency = "rarely"  -> 1
    [] usageFrequency = "never"   -> 0

UsageOf(sub) ==
  usagePriority(IF sub.usageFrequency = NoUsage THEN "never"
                ELSE sub.usageFrequency)

\* a comparator that forgets the usage priority
CompareServicesByCostOnly(a, b) == a.monthlyCost - b.monthlyCost

\* the comparator: negative when a goes first
CompareServices(a, b) ==
  IF UsageOf(a) # UsageOf(b) THEN UsageOf(b) - UsageOf(a)
  ELSE a.monthlyCost - b.monthlyCost

RECURSIVE InsertStable(_, _)
InsertStable(sorted, x) ==
  IF sorted = << >> THEN << x >>
  ELSE IF CompareServices(x, Head(sorted)) < 0 THEN << x >> \o sorted
  ELSE << Head(sorted) >> \o InsertStable(Tail(sorted), x)

RECURSIVE SortServices(_)
SortServices(services) ==
  IF services = << >> THEN << >>
  ELSE InsertStable(SortServices(SubSeq(services, 1, Len(services) - 1)),
                    services[Len(services)])

\* the sum of the costs as billed, not as normalized to a month
RECURSIVE SumBilledCost(_)
SumBilledCost(services) ==
  IF services = << >> THEN 0
  ELSE Head(services).cost * CostScale + SumBilledCost(Tail(services))

RECURSIVE SumMonthlyCost(_)
SumMonthlyCost(services) ==
  IF services = << >> THEN 0
  ELSE Head(services).monthlyCost + SumMonthlyCost(Tail(services))

(***************************************************************************)
(* The group of one anchor, lines 1389-1423.                               *)
(***************************************************************************)
\* servicesWithCosts[0], line 1411
Recommended(servicesWithCosts) == Head(servicesWithCosts)

\* the slice taken from the start
ToCancelFromStart(servicesWithCosts) == servicesWithCosts

\* servicesWithCosts.slice(1), line 1412
ToCancel(servicesWithCosts) == Tail(servicesWithCosts)

\* the reason of the partner found last
ReasonOfLastPartner(overlappingServices) ==
  IF overlappingServices[Len(overlappingServices)].overlapReason # ""
    THEN overlappingServices[Len(overlappingServices)].overlapReason
    ELSE "Similar functionality"

\* overlappingServices[0]?.overlapReason || 'Similar functionality', line 1422
GroupOverlapReason(overlappingServices) ==
  IF overlappingServices[1].overlapReason # ""
    THEN overlappingServices[1].overlapReason
    ELSE "Similar functionality"

MakeGroup(currentSub, overlappingServices) ==
  LET allServices ==
        << currentSub >> \o
        [k \in 1..Len(overlappingServices) |-> overlappingServices[k].subscription]
      servicesWithCosts ==
        SortServices([k \in 1..Len(allServices) |-> WithMonthlyCost(allServices[k])])
      toCancel == ToCancel(servicesWithCosts)
  IN  [category |-> currentSub.category,
       services |-> servicesWithCosts,
       recommended |-> Recommended(servicesWithCosts),
       toCancel |-> toCancel,
       potentialSavings |-> SumMonthlyCost(toCancel),
       overlapReason |-> GroupOverlapReason(overlappingServices)]

(***************************************************************************)
(* The results of the two handlers.                                        *)
(***************************************************************************)
\* only the first group's savings are counted
SavingsOfFirstGroup(groups) ==
  IF groups = << >> THEN 0 ELSE Head(groups).potentialSavings

RECURSIVE SumPotentialSavings(_)
SumPotentialSavings(groups) ==
  IF groups = << >> THEN 0
  ELSE Head(groups).potentialSavings + SumPotentialSavings(Tail(groups))

\* lines 1431-1439 and 1583-1591: the message names the recommended service,
\* the number of services to cancel (with its plural) and the savings
ConsolidationEntry(group) ==
  [type |-> "consolidation",
   titleCategory |-> group.category,
   keep |-> group.recommended.name,
   cancelCount |-> Len(group.toCancel),
   plural |-> Len(group.toCancel) > 1,
   savings |-> group.potentialSavings,
   group |-> group]

\* lines 1441-1446
OverlapDetectionResult(groups) ==
  [kind |-> "overlapDetection",
   overlapGroups |-> groups,
   potentialSavings |-> SumPotentialSavings(groups),
   totalOverlaps |-> Len(groups),
   recommendations |-> [k \in 1..Len(groups) |-> ConsolidationEntry(groups[k])]]

\* a stable sort by descending key, lines 1608 and 1633
RECURSIVE InsertDescending(_, _)
InsertDescending(sorted, x) ==
  IF sorted = << >> THEN << x >>
  ELSE IF Head(sorted).key - x.key < 0 THEN << x >> \o sorted
  ELSE << Head(sorted) >> \o InsertDescending(Tail(sorted), x)

RECURSIVE SortDescending(_)
SortDescending(keyed) ==
  IF keyed = << >> THEN << >>
  ELSE InsertDescending(SortDescending(SubSeq(keyed, 1, Len(keyed) - 1)),
                        keyed[Len(keyed)])

\* lines 1597-1620
IsUnderutilized(sub) ==
  sub.usageFrequency = "rarely" \/ sub.usageFrequency = "never"

IsExpensive(sub) == MonthlyCost(sub) > 1000 * CostScale

IsUnderutilizedExpensive(sub) == IsUnderutilized(sub) /\ IsExpensive(sub)

UnusedSuggestions(subs) ==
  LET picked == SelectSeq(subs, IsUnderutilizedExpensive)
      sorted == SortDescending([k \in 1..Len(picked) |->
                  [key |-> MonthlyCost(picked[k]),
                   item |-> WithMonthlyCost(picked[k])]])
  IN  [k \in 1..Len(sorted) |->
        [type |-> "unused", subscription |-> sorted[k].item]]

\* lines 1623-1645; potentialAnnualSavings is cost * 0.15
IsMonthlyHighUsage(sub) ==
  /\ sub.billingCycle = "monthly"
  /\ (sub.usageFrequency = "daily" \/ sub.usageFrequency = "weekly")

PotentialAnnualSavings(sub) == (sub.cost * 15 * CostScale) \div 100

AnnualSuggestions(subs) ==
  LET picked == SelectSeq(subs, IsMonthlyHighUsage)
      sorted == SortDescending([k \in 1..Len(picked) |->
                  [key |-> PotentialAnnualSavings(picked[k]),
                   item |-> picked[k]]])
  IN  [k \in 1..Len(sorted) |->
        [type |-> "annual",
         subscription |-> sorted[k].item,
         monthlyCost |-> sorted[k].item.cost * CostScale,
         potentialAnnualSavings |-> sorted[k].key]]

\* the total taken from the groups' total costs instead of their savings
SuggestionsResultOfTotalCosts(subs, groups) ==
  [kind |-> "consolidationSuggestions",
   suggestions |->
     [k \in 1..Len(groups) |-> ConsolidationEntry(groups[k])]
     \o UnusedSuggestions(subs) \o AnnualSuggestions(subs),
   totalPotentialSavings |-> SumMonthlyCost([k \in 1..Len(groups) |-> groups[k].recommended])
                             + SumPotentialSavings(groups),
   overlapCount |-> Len(groups)]

\* lines 1576-1651
ConsolidationSuggestionsResult(subs, groups) ==
  [kind |-> "consolidationSuggestions",
   suggestions |->
     [k \in 1..Len(groups) |-> ConsolidationEntry(groups[k])]
     \o UnusedSuggestions(subs) \o AnnualSuggestions(subs),
   totalPotentialSavings |-> SumPotentialSavings(groups),
   overlapCount |-> Len(groups)]

\* lines 1315-1320 and 1465-1469
EmptyResult(h) ==
  IF h = "getOverlapDetection"
    THEN [kind |-> "overlapDetection", overlapGroups |-> << >>,
          potentialSavings |-> 0, totalOverlaps |-> 0, recommendations |-> << >>]
    ELSE [kind |-> "consolidationSuggestions", suggestions |-> << >>,
          totalPotentialSavings |-> 0, overlapCount |-> 0]

(***************************************************************************)
(* The subscriptions table and the inputs of the model.                    *)
(***************************************************************************)
Text ==
  [ Netflix      |-> <<"N", "e", "t", "f", "l", "i", "x">>,
    NetflixSpace |-> <<"N", "e", "t", "f", "l", "i", "x", " ">>,
    NETFLIX      |-> <<"N", "E", "T", "F", "L", "I", "X">>,
    Hulu         |-> <<"H", "u", "l", "u">>,
    Hula         |-> <<"H", "u", "l", "a">>,
    Disney       |-> <<"D", "i", "s", "n", "e", "y">>,
    Acme         |-> <<"A", "c", "m", "e">>,
    Constructor  |-> <<"C", "o", "n", "s", "t", "r", "u", "c", "t", "o", "r">>,
    Empty        |-> << >>,
    ExpressVPN   |-> <<"E", "x", "p", "r", "e", "s", "s", "V", "P", "N">>,
    ExpressNet   |-> <<"E", "x", "p", "r", "e", "s", "s", "N", "e", "t">>,
    iCloud       |-> <<"i", "C", "l", "o", "u", "d">>,
    Apple        |-> <<"A", "p", "p", "l", "e">>,
    Apply        |-> <<"A", "p", "p", "l", "y">>,
    apple        |-> <<"a", "p", "p", "l", "e">> ]

Handlers == { "getOverlapDetection", "getConsolidationSuggestions" }

NoUser == "undefined"

Users == { "u1", "u2" }

Row(userId, name, provider, category, cost, billingCycle, status, usageFrequency) ==
  [userId |-> userId, name |-> name, provider |-> provider,
   category |-> category, cost |-> cost, currency |-> "USD",
   billingCycle |-> billingCycle, status |-> status,
   usageFrequency |-> usageFrequency]

Catalogue ==
  { Row("u1", Text.Netflix, Text.Netflix, "entertainment", 1599, "monthly", "active", "monthly"),
    Row("u1", Text.Hulu, Text.Disney, "entertainment", 799, "monthly", "active", "rarely"),
    Row("u1", Text.Hula, Text.Acme, "entertainment", 2400, "quarterly", "active", "rarely"),
    Row("u1", Text.NetflixSpace, Text.NETFLIX, "productivity", 9590, "yearly", "active", "daily"),
    Row("u1", Text.Constructor, Text.Acme, "productivity", 500, "weekly", "active", NoUsage),
    Row("u1", Text.Empty, Text.Empty, "entertainment", 4794, "biannual", "active", "never"),
    Row("u1", Text.ExpressVPN, Text.Apple, "productivity", 1200, "monthly", "active", "weekly"),
    Row("u1", Text.ExpressNet, Text.Apply, "productivity", 1300, "monthly", "active", "never"),
    Row("u1", Text.iCloud, Text.apple, "productivity", 99, "monthly", "active", "daily"),
    Row("u1", Text.Hulu, Text.Disney, "entertainment", 799, "monthly", "cancelled", "daily"),
    Row("u2", Text.Netflix, Text.Netflix, "entertainment", 1599, "monthly", "active", "monthly") }

\* a stored document: the row and its _id
Stored(row, id) ==
  [id |-> id, userId |-> row.userId, name |-> row.name,
   provider |-> row.provider, category |-> row.category, cost |-> row.cost,
   currency |-> row.currency, billingCycle |-> row.billingCycle,
   status |-> row.status, usageFrequency |-> row.usageFrequency]

VARIABLES
  db,                  \* the subscriptions table, in the order collect() returns
  pc,                  \* "idle", "loop", "done" or "threw"
  handler,             \* the query being run
  caller,              \* getUserId(ctx)
  activeSubscriptions, \* lines 1308-1312
  i,                   \* the outer loop's index, from 1
  processedIds,        \* line 1324
  overlapGroups,       \* line 1323
  classified,          \* the classifications made so far, in order
  result,              \* what the handler returned
  call,                \* a direct call of one of the helper functions
  clock,               \* the mutations committed so far; the next _id is clock + 1
  other                \* a second invocation of a query, with its own locals

vars == << db, pc, handler, caller, activeSubscriptions, i, processedIds,
           overlapGroups, classified, result, call, clock, other >>

\* no helper has been called
NoCall == [fn |-> "none"]

\* no second invocation has started
NoInvocation ==
  [pc |-> "idle", handler |-> "none", caller |-> NoUser,
   activeSubscriptions |-> << >>, i |-> 0, processedIds |-> {},
   overlapGroups |-> << >>, result |-> [kind |-> "none"]]

Init ==
  /\ \E n \in 0..MaxSubs :
       \E rows \in [1..n -> Catalogue] :
         /\ db = [k \in 1..n |-> Stored(rows[k], k)]
         /\ clock = n
  /\ pc = "idle"
  /\ handler = "none"
  /\ caller = NoUser
  /\ activeSubscriptions = << >>
  /\ i = 0
  /\ processedIds = {}
  /\ overlapGroups = << >>
  /\ classified = << >>
  /\ result = [kind |-> "none"]
  /\ call = NoCall
  /\ other = NoInvocation

\* lines 1308-1312: the caller's active subscriptions
\* the filter on status left out
IsOfUser(userId, sub) == sub.userId = userId

IsActiveOf(userId, sub) == sub.userId = userId /\ sub.status = "active"

ActiveSubscriptions(table, userId) ==
  LET Mine(sub) == IsActiveOf(userId, sub) IN SelectSeq(table, Mine)

\* the early return taken for an empty list only
TooFewOffByOne(subs) == Len(subs) < 1

\* lines 1314 and 1464
TooFew(subs) == Len(subs) < 2

\* lines 1305-1306: no identity, the handler returns null
InvokeNoUser(h) ==
  /\ pc = "idle"
  /\ handler' = h
  /\ caller' = NoUser
  /\ result' = [kind |-> "null"]
  /\ pc' = "done"
  /\ UNCHANGED << other, call, clock, db, activeSubscriptions, i, processedIds, overlapGroups, classified >>

\* lines 1314-1321: fewer than two active subscriptions
InvokeFewSubs(h, u) ==
  /\ pc = "idle"
  /\ TooFew(ActiveSubscriptions(db, u))
  /\ handler' = h
  /\ caller' = u
  /\ activeSubscriptions' = ActiveSubscriptions(db, u)
  /\ result' = EmptyResult(h)
  /\ pc' = "done"
  /\ UNCHANGED << other, call, clock, db, i, processedIds, overlapGroups, classified >>

\* lines 1323-1327: the loop starts
InvokeLoop(h, u) ==
  /\ pc = "idle"
  /\ ~TooFew(ActiveSubscriptions(db, u))
  /\ handler' = h
  /\ caller' = u
  /\ activeSubscriptions' = ActiveSubscriptions(db, u)
  /\ i' = 1
  /\ processedIds' = {}
  /\ overlapGroups' = << >>
  /\ classified' = << >>
  /\ pc' = "loop"
  /\ UNCHANGED << other, call, clock, db, result >>

InLoop == pc = "loop" /\ i <= Len(activeSubscriptions)

\* line 1328
SkipProcessed ==
  /\ InLoop
  /\ activeSubscriptions[i].id \in processedIds
  /\ i' = i + 1
  /\ UNCHANGED << other, call, clock, db, pc, handler, caller, activeSubscriptions, processedIds,
                  overlapGroups, classified, result >>

\* line 1328 left out: a processed subscription is an anchor too
IsAnchorEvenIfProcessed == InLoop

IsAnchor == InLoop /\ activeSubscriptions[i].id \notin processedIds

\* the inner loop started at the first subscription instead of the next one
AnchorPassFromFirst ==
  InnerLoop(activeSubscriptions, i, 1,
            [processedIds |-> processedIds, overlappingServices |-> << >>,
             classified |-> classified, threw |-> FALSE])

\* the inner loop of anchor i, run to its end or to the exception
AnchorPass ==
  InnerLoop(activeSubscriptions, i, i + 1,
            [processedIds |-> processedIds, overlappingServices |-> << >>,
             classified |-> classified, threw |-> FALSE])

\* line 1352 throws: the query fails
AnchorThrows ==
  /\ IsAnchor
  /\ \E pass \in {AnchorPass} :
       /\ pass.threw
       /\ classified' = pass.classified
       /\ processedIds' = pass.processedIds
  /\ pc' = "threw"
  /\ UNCHANGED << other, call, clock, db, handler, caller, activeSubscriptions, i, overlapGroups, result >>

\* lines 1386-1424: the anchor found partners
AnchorGroups ==
  /\ IsAnchor
  /\ \E pass \in {AnchorPass} :
       /\ ~pass.threw
       /\ Len(pass.overlappingServices) > 0
       /\ processedIds' = pass.processedIds \cup {activeSubscriptions[i].id}
       /\ overlapGroups' =
            Append(overlapGroups,
                   MakeGroup(activeSubscriptions[i], pass.overlappingServices))
       /\ classified' = pass.classified
  /\ i' = i + 1
  /\ UNCHANGED << other, call, clock, db, pc, handler, caller, activeSubscriptions, result >>

\* line 1386 is false: no group, the anchor stays unprocessed
AnchorAlone ==
  /\ IsAnchor
  /\ \E pass \in {AnchorPass} :
       /\ ~pass.threw
       /\ Len(pass.overlappingServices) = 0
       /\ classified' = pass.classified
  /\ i' = i + 1
  /\ UNCHANGED << other, call, clock, db, pc, handler, caller, activeSubscriptions, processedIds,
                  overlapGroups, result >>

\* the monthly costs written to the stored documents instead of to copies
ReturnOverlapDetectionStoringCosts ==
  /\ pc = "loop"
  /\ i > Len(activeSubscriptions)
  /\ handler = "getOverlapDetection"
  /\ result' = OverlapDetectionResult(overlapGroups)
  /\ db' = [k \in DOMAIN db |->
              IF IsActiveOf(caller, db[k]) THEN WithMonthlyCost(db[k]) ELSE db[k]]
  /\ pc' = "done"
  /\ UNCHANGED << other, call, clock, handler, caller, activeSubscriptions, i, processedIds,
                  overlapGroups, classified >>

\* lines 1427-1446
ReturnOverlapDetection ==
  /\ pc = "loop"
  /\ i > Len(activeSubscriptions)
  /\ handler = "getOverlapDetection"
  /\ result' = OverlapDetectionResult(overlapGroups)
  /\ pc' = "done"
  /\ UNCHANGED << other, call, clock, db, handler, caller, activeSubscriptions, i, processedIds,
                  overlapGroups, classified >>

\* lines 1576-1651
ReturnConsolidationSuggestions ==
  /\ pc = "loop"
  /\ i > Len(activeSubscriptions)
  /\ handler = "getConsolidationSuggestions"
  /\ result' = ConsolidationSuggestionsResult(activeSubscriptions, overlapGroups)
  /\ pc' = "done"
  /\ UNCHANGED << other, call, clock, db, handler, caller, activeSubscriptions, i, processedIds,
                  overlapGroups, classified >>

Next ==
  \/ \E h \in Handlers : InvokeNoUser(h)
  \/ \E h \in Handlers : \E u \in Users : InvokeFewSubs(h, u)
  \/ \E h \in Handlers : \E u \in Users : InvokeLoop(h, u)
  \/ SkipProcessed
  \/ AnchorThrows
  \/ AnchorGroups
  \/ AnchorAlone
  \/ ReturnOverlapDetection
  \/ ReturnConsolidationSuggestions

Spec == Init /\ [][Next]_vars

(***************************************************************************)
(* Longer tables over fewer rows: two pairs of overlapping services and    *)
(* the name that makes the classification throw, so that a query can       *)
(* return more than one group.                                             *)
(***************************************************************************)
MaxManySubs == 4

ShortCatalogue ==
  { Row("u1", Text.Netflix, Text.Netflix, "entertainment", 1599, "monthly", "active", "monthly"),
    Row("u1", Text.Hulu, Text.Disney, "entertainment", 799, "monthly", "active", "rarely"),
    Row("u1", Text.ExpressVPN, Text.Apple, "productivity", 1200, "monthly", "active", "weekly"),
    Row("u1", Text.iCloud, Text.apple, "productivity", 99, "monthly", "active", "daily"),
    Row("u1", Text.Constructor, Text.Acme, "productivity", 500, "weekly", "active", NoUsage) }

InitMany ==
  /\ \E n \in 0..MaxManySubs :
       \E rows \in [1..n -> ShortCatalogue] :
         /\ db = [k \in 1..n |-> Stored(rows[k], k)]
         /\ clock = n
  /\ pc = "idle"
  /\ handler = "none"
  /\ caller = NoUser
  /\ activeSubscriptions = << >>
  /\ i = 0
  /\ processedIds = {}
  /\ overlapGroups = << >>
  /\ classified = << >>
  /\ result = [kind |-> "none"]
  /\ call = NoCall
  /\ other = NoInvocation

SpecMany == InitMany /\ [][Next]_vars

(***************************************************************************)
(* The mutations that write the subscriptions table, lines 793-990, run    *)
(* before a query.  Each is one transaction; one that throws ("User not    *)
(* found", "Subscription not found") writes nothing and is left out.  A    *)
(* query reads the table once (collect), so no mutation is placed inside   *)
(* it.                                                                     *)
(***************************************************************************)
MaxOps == 4

\* the arguments of createSubscription
NewSubscriptions ==
  { [name |-> Text.Netflix, provider |-> Text.Netflix, category |-> "entertainment",
     cost |-> 1599, billingCycle |-> "monthly"],
    [name |-> Text.Hulu, provider |-> Text.Disney, category |-> "entertainment",
     cost |-> 799, billingCycle |-> "monthly"],
    [name |-> Text.Constructor, provider |-> Text.Acme, category |-> "productivity",
     cost |-> 500, billingCycle |-> "weekly"] }

\* lines 880-885
Statuses == {"active", "cancelled", "paused", "trial"}

\* the fields an updateSubscription call provides
UpdatePatches == {[status |-> status] : status \in Statuses}

\* ctx.db.get(id) returns a document and it belongs to the caller
IsOwnedBy(table, userId, id) ==
  \E k \in DOMAIN table : table[k].id = id /\ table[k].userId = userId

\* ctx.db.patch
Patch(table, id, updates) ==
  [k \in DOMAIN table |->
     IF table[k].id = id
       THEN [field \in DOMAIN table[k] |->
               IF field \in DOMAIN updates THEN updates[field] ELSE table[k][field]]
       ELSE table[k]]

\* ctx.db.delete
Delete(table, id) == LET Other(doc) == doc.id # id IN SelectSeq(table, Other)

CanMutate == pc = "idle" /\ clock < MaxOps

\* lines 827-860
createSubscription(userId, args) ==
  /\ CanMutate
  /\ db' = Append(db, Stored(Row(userId, args.name, args.provider, args.category,
                                 args.cost, args.billingCycle, "active", NoUsage),
                             clock + 1))
  /\ clock' = clock + 1
  /\ UNCHANGED << pc, handler, caller, activeSubscriptions, i, processedIds,
                  overlapGroups, classified, result, call, other >>

\* lines 911-945
updateSubscription(userId, id, updates) ==
  /\ CanMutate
  /\ IsOwnedBy(db, userId, id)
  /\ db' = Patch(db, id, updates)
  /\ clock' = clock + 1
  /\ UNCHANGED << pc, handler, caller, activeSubscriptions, i, processedIds,
                  overlapGroups, classified, result, call, other >>

\* lines 953-964
deleteSubscription(userId, id) ==
  /\ CanMutate
  /\ IsOwnedBy(db, userId, id)
  /\ db' = Delete(db, id)
  /\ clock' = clock + 1
  /\ UNCHANGED << pc, handler, caller, activeSubscriptions, i, processedIds,
                  overlapGroups, classified, result, call, other >>

\* the call succeeds and leaves the status as it was
cancelSubscriptionKeepingStatus(userId, id) ==
  /\ CanMutate
  /\ IsOwnedBy(db, userId, id)
  /\ db' = db
  /\ clock' = clock + 1
  /\ UNCHANGED << pc, handler, caller, activeSubscriptions, i, processedIds,
                  overlapGroups, classified, result, call, other >>

\* lines 973-989
cancelSubscription(userId, id) ==
  /\ CanMutate
  /\ IsOwnedBy(db, userId, id)
  /\ db' = Patch(db, id, [status |-> "cancelled"])
  /\ clock' = clock + 1
  /\ UNCHANGED << pc, handler, caller, activeSubscriptions, i, processedIds,
                  overlapGroups, classified, result, call, other >>

InitOps ==
  /\ db = << >>
  /\ clock = 0
  /\ pc = "idle"
  /\ handler = "none"
  /\ caller = NoUser
  /\ activeSubscriptions = << >>
  /\ i = 0
  /\ processedIds = {}
  /\ overlapGroups = << >>
  /\ classified = << >>
  /\ result = [kind |-> "none"]
  /\ call = NoCall
  /\ other = NoInvocation

NextOps ==
  \/ \E userId \in Users, args \in NewSubscriptions : createSubscription(userId, args)
  \/ \E userId \in Users, id \in 1..MaxOps, updates \in UpdatePatches :
       updateSubscription(userId, id, updates)
  \/ \E userId \in Users, id \in 1..MaxOps : deleteSubscription(userId, id)
  \/ \E userId \in Users, id \in 1..MaxOps : cancelSubscription(userId, id)
  \/ Next

SpecOps == InitOps /\ [][NextOps]_vars

(***************************************************************************)
(* The recommendations applied: after getOverlapDetection has returned     *)
(* groups, cancelSubscription is called for every toCancel member of every *)
(* group, as the Cancel buttons of renderOverlapGroup do                   *)
(* (ConsolidationScreen.tsx lines 141-173), and the queries run again on   *)
(* what is left.  call keeps the ids cancelled and the ids recommended.    *)
(***************************************************************************)
MaxApplySubs == 3

ChainCatalogue ==
  { Row("u1", Text.Netflix, Text.Netflix, "entertainment", 1599, "monthly", "active", "monthly"),
    Row("u1", Text.Hulu, Text.Disney, "entertainment", 799, "monthly", "active", "daily"),
    Row("u1", Text.Hula, Text.Acme, "entertainment", 2400, "quarterly", "active", "rarely"),
    Row("u1", Text.Constructor, Text.Acme, "productivity", 500, "weekly", "active", NoUsage) }

InitApply ==
  /\ \E n \in 0..MaxApplySubs :
       \E rows \in [1..n -> ChainCatalogue] :
         /\ db = [k \in 1..n |-> Stored(rows[k], k)]
         /\ clock = n
  /\ pc = "idle"
  /\ handler = "none"
  /\ caller = NoUser
  /\ activeSubscriptions = << >>
  /\ i = 0
  /\ processedIds = {}
  /\ overlapGroups = << >>
  /\ classified = << >>
  /\ result = [kind |-> "none"]
  /\ call = NoCall
  /\ other = NoInvocation

\* the toCancel members of the groups, group after group
RECURSIVE AllToCancel(_, _)
AllToCancel(groups, n) ==
  IF n = 0 THEN << >> ELSE AllToCancel(groups, n - 1) \o groups[n].toCancel

\* only the first of the services is cancelled
CancelFirstOnly(table, services, n) ==
  IF n = 0 THEN table ELSE Patch(table, services[1].id, [status |-> "cancelled"])

\* cancelSubscription for each of the first n services, lines 982-986
RECURSIVE CancelEach(_, _, _)
CancelEach(table, services, n) ==
  IF n = 0 THEN table
  ELSE Patch(CancelEach(table, services, n - 1), services[n].id, [status |-> "cancelled"])

\* ConsolidationScreen.tsx lines 141-173 and 61-86, subscriptions.ts lines
\* 973-989: every toCancel member of the returned groups is cancelled
ApplyRecommendations ==
  /\ pc = "done"
  /\ result.kind = "overlapDetection"
  /\ Len(result.overlapGroups) > 0
  /\ LET services == AllToCancel(result.overlapGroups, Len(result.overlapGroups))
     IN  /\ \A n \in DOMAIN services : IsOwnedBy(db, caller, services[n].id)
         /\ db' = CancelEach(db, services, Len(services))
         /\ clock' = clock + Len(services)
         /\ call' = [fn |-> "cancelSubscription",
                     userId |-> caller,
                     args |-> {services[n].id : n \in DOMAIN services},
                     kept |-> {result.overlapGroups[k].recommended.id :
                                 k \in DOMAIN result.overlapGroups}]
  /\ pc' = "idle"
  /\ UNCHANGED << handler, caller, activeSubscriptions, i, processedIds,
                  overlapGroups, classified, result, other >>

NextApply ==
  \/ ApplyRecommendations
  \/ Next

SpecApply == InitApply /\ [][NextApply]_vars

(***************************************************************************)
(* Two invocations of the queries in flight at once.  The first uses the   *)
(* variables above; the second keeps its locals in other.  Every invocation*)
(* declares its own overlapGroups and processedIds (lines 1323-1324 and    *)
(* 1472-1473), and their steps interleave in any order.                    *)
(***************************************************************************)
MaxTwoSubs == 3

TwoUsersCatalogue ==
  { Row("u1", Text.Netflix, Text.Netflix, "entertainment", 1599, "monthly", "active", "monthly"),
    Row("u1", Text.Hulu, Text.Disney, "entertainment", 799, "monthly", "active", "rarely"),
    Row("u2", Text.Constructor, Text.Acme, "productivity", 500, "weekly", "active", NoUsage),
    Row("u2", Text.Hulu, Text.Disney, "entertainment", 799, "monthly", "active", "daily") }

InitTwo ==
  /\ \E n \in 0..MaxTwoSubs :
       \E rows \in [1..n -> TwoUsersCatalogue] :
         /\ db = [k \in 1..n |-> Stored(rows[k], k)]
         /\ clock = n
  /\ pc = "idle"
  /\ handler = "none"
  /\ caller = NoUser
  /\ activeSubscriptions = << >>
  /\ i = 0
  /\ processedIds = {}
  /\ overlapGroups = << >>
  /\ classified = << >>
  /\ result = [kind |-> "none"]
  /\ call = NoCall
  /\ other = NoInvocation

\* the processed set of the first invocation read by the second one
SharedProcessedIds(inv) == processedIds

\* lines 1324 and 1473: the set is a local of the handler
OwnProcessedIds(inv) == inv.processedIds

\* lines 1305-1327: the second invocation reads the table
OtherInvoke(h, u) ==
  /\ other.pc = "idle"
  /\ other' =
       IF u = NoUser
         THEN [other EXCEPT !.pc = "done", !.handler = h, !.caller = u,
                            !.result = [kind |-> "null"]]
       ELSE IF TooFew(ActiveSubscriptions(db, u))
         THEN [other EXCEPT !.pc = "done", !.handler = h, !.caller = u,
                            !.activeSubscriptions = ActiveSubscriptions(db, u),
                            !.result = EmptyResult(h)]
         ELSE [other EXCEPT !.pc = "loop", !.handler = h, !.caller = u,
                            !.activeSubscriptions = ActiveSubscriptions(db, u),
                            !.i = 1]
  /\ UNCHANGED << db, pc, handler, caller, activeSubscriptions, i, processedIds,
                  overlapGroups, classified, result, call, clock >>

\* lines 1327-1425: one iteration of the outer loop of an invocation
Iteration(inv) ==
  LET subs == inv.activeSubscriptions
      pass == InnerLoop(subs, inv.i, inv.i + 1,
                        [processedIds |-> OwnProcessedIds(inv),
                         overlappingServices |-> << >>,
                         classified |-> << >>, threw |-> FALSE])
  IN  IF subs[inv.i].id \in OwnProcessedIds(inv)
        THEN [inv EXCEPT !.i = @ + 1]
      ELSE IF pass.threw
        THEN [inv EXCEPT !.pc = "threw", !.processedIds = pass.processedIds]
      ELSE IF Len(pass.overlappingServices) > 0
        THEN [inv EXCEPT
                !.i = @ + 1,
                !.processedIds = pass.processedIds \cup {subs[inv.i].id},
                !.overlapGroups =
                   Append(@, MakeGroup(subs[inv.i], pass.overlappingServices))]
        ELSE [inv EXCEPT !.i = @ + 1]

OtherIteration ==
  /\ other.pc = "loop"
  /\ other.i <= Len(other.activeSubscriptions)
  /\ other' = Iteration(other)
  /\ UNCHANGED << db, pc, handler, caller, activeSubscriptions, i, processedIds,
                  overlapGroups, classified, result, call, clock >>

\* lines 1427-1446 and 1576-1651
OtherReturn ==
  /\ other.pc = "loop"
  /\ other.i > Len(other.activeSubscriptions)
  /\ other' =
       [other EXCEPT
          !.pc = "done",
          !.result =
             IF other.handler = "getOverlapDetection"
               THEN OverlapDetectionResult(other.overlapGroups)
               ELSE ConsolidationSuggestionsResult(other.activeSubscriptions,
                                                   other.overlapGroups)]
  /\ UNCHANGED << db, pc, handler, caller, activeSubscriptions, i, processedIds,
                  overlapGroups, classified, result, call, clock >>

NextTwo ==
  \/ \E h \in Handlers : \E u \in Users \cup {NoUser} : OtherInvoke(h, u)
  \/ OtherIteration
  \/ OtherReturn
  \/ Next

SpecTwo == InitTwo /\ [][NextTwo]_vars

(***************************************************************************)
(* A query run from its first line to its last with nothing in between:    *)
(* the loop of lines 1327-1425 over a list, then the return.               *)
(***************************************************************************)
RECURSIVE ClusterFrom(_, _, _, _)
ClusterFrom(subs, k, ids, groups) ==
  IF k > Len(subs) THEN [threw |-> FALSE, overlapGroups |-> groups]
  ELSE IF subs[k].id \in ids THEN ClusterFrom(subs, k + 1, ids, groups)
  ELSE
    LET pass == InnerLoop(subs, k, k + 1,
                          [processedIds |-> ids, overlappingServices |-> << >>,
                           classified |-> << >>, threw |-> FALSE])
    IN  IF pass.threw THEN [threw |-> TRUE, overlapGroups |-> groups]
        ELSE IF Len(pass.overlappingServices) > 0
          THEN ClusterFrom(subs, k + 1, pass.processedIds \cup {subs[k].id},
                           Append(groups, MakeGroup(subs[k], pass.overlappingServices)))
          ELSE ClusterFrom(subs, k + 1, ids, groups)

\* lines 1323-1425
Cluster(subs) == ClusterFrom(subs, 1, {}, << >>)

\* the handler h on the list subs of the caller's active subscriptions
RunAlone(h, subs) ==
  IF TooFew(subs) THEN [pc |-> "done", result |-> EmptyResult(h)]
  ELSE IF Cluster(subs).threw THEN [pc |-> "threw", result |-> [kind |-> "none"]]
  ELSE [pc |-> "done",
        result |-> IF h = "getOverlapDetection"
                     THEN OverlapDetectionResult(Cluster(subs).overlapGroups)
                     ELSE ConsolidationSuggestionsResult(subs, Cluster(subs).overlapGroups)]

(***************************************************************************)
(* The helper functions called on their own.  A call is recorded with its  *)
(* arguments and the value returned; the handlers' variables stay as they  *)
(* are before a query.                                                     *)
(***************************************************************************)
MaxStrLen == 3

MaxNameLen == 4

\* every string of at most n characters of the alphabet
StringsOver(alphabet, n) == UNION {[1..k -> alphabet] : k \in 0..n}

\* the strings handed to levenshteinDistance and calculateSimilarity
EditStrings == StringsOver({"a", "b"}, MaxStrLen)

\* the names handed to normalizeServiceName: letters of both cases, white
\* space, an underscore and a character that is not a word character
NameStrings == StringsOver({"N", "n", " ", "_", "-"}, MaxNameLen)

\* the keys looked up in SERVICE_OVERLAPS: its own keys, the names its lists
\* hold, a name it does not know and a property every object inherits
LookupKeys ==
  DOMAIN SERVICE_OVERLAPS
    \cup UNION {{SERVICE_OVERLAPS[key][n] : n \in DOMAIN SERVICE_OVERLAPS[key]} :
                 key \in DOMAIN SERVICE_OVERLAPS}
    \cup {normalizeServiceName(Text.Acme), normalizeServiceName(Text.Constructor)}

handlerVars == << db, pc, handler, caller, activeSubscriptions, i, processedIds,
                  overlapGroups, classified, result, clock, other >>

InitCalls ==
  /\ db = << >>
  /\ clock = 0
  /\ pc = "idle"
  /\ handler = "none"
  /\ caller = NoUser
  /\ activeSubscriptions = << >>
  /\ i = 0
  /\ processedIds = {}
  /\ overlapGroups = << >>
  /\ classified = << >>
  /\ result = [kind |-> "none"]
  /\ call = NoCall
  /\ other = NoInvocation

\* SERVICE_OVERLAPS[currentNormalized] || [], lines 1335 and 1484
LookupServiceOverlaps ==
  /\ call = NoCall
  /\ \E key \in LookupKeys :
       call' = [fn |-> "SERVICE_OVERLAPS", args |-> << key >>,
                ret |-> KnownOverlaps(key)]
  /\ UNCHANGED handlerVars

\* lines 1273-1299
CallLevenshteinDistance ==
  /\ call = NoCall
  /\ \E str1 \in EditStrings, str2 \in EditStrings :
       call' = [fn |-> "levenshteinDistance", args |-> << str1, str2 >>,
                ret |-> levenshteinDistance(str1, str2)]
  /\ UNCHANGED handlerVars

\* lines 1262-1270
CallCalculateSimilarity ==
  /\ call = NoCall
  /\ \E str1 \in EditStrings, str2 \in EditStrings :
       call' = [fn |-> "calculateSimilarity", args |-> << str1, str2 >>,
                ret |-> calculateSimilarity(str1, str2)]
  /\ UNCHANGED handlerVars

\* lines 1253-1259
CallNormalizeServiceName ==
  /\ call = NoCall
  /\ \E name \in NameStrings :
       call' = [fn |-> "normalizeServiceName", args |-> << name >>,
                ret |-> normalizeServiceName(name)]
  /\ UNCHANGED handlerVars

MaxCost == 12

\* costs in cents
Costs == 0..MaxCost

\* the billing cycles of the schema, lines 800-806, and a value it does not know
BillingCycles == {"monthly", "yearly", "weekly", "quarterly", "biannual", "daily"}

Currencies == {"USD", "EUR"}

Categories == {"entertainment", "productivity"}

\* a stored subscription with this price
Priced(cost, billingCycle, currency, category) ==
  [Stored(Row("u1", Text.Netflix, Text.Netflix, category, cost, billingCycle,
              "active", "daily"), 1)
     EXCEPT !.currency = currency]

\* lines 3048-3062
CallGetMonthlyCost ==
  /\ call = NoCall
  /\ \E cost \in Costs, billingCycle \in BillingCycles :
       call' = [fn |-> "getMonthlyCost", args |-> << cost, billingCycle >>,
                ret |-> getMonthlyCost(cost, billingCycle)]
  /\ UNCHANGED handlerVars

\* the expression of lines 1392-1399 (and 1541-1548) on one subscription
MapMonthlyCost ==
  /\ call = NoCall
  /\ \E cost \in Costs, billingCycle \in BillingCycles,
        currency \in Currencies, category \in Categories :
       LET sub == Priced(cost, billingCycle, currency, category)
       IN  call' = [fn |-> "monthlyCost", args |-> << sub >>,
                    ret |-> WithMonthlyCost(sub).monthlyCost]
  /\ UNCHANGED handlerVars

\* the subscriptions classified on their own: the catalogue, a service
\* whose name alone is similar to another one's, and one that shares the
\* category and the provider of the service named Constructor
ClassifierInputs ==
  Catalogue
    \cup { Row("u1", Text.Hulu, Text.Apple, "productivity", 899, "monthly", "active", "weekly"),
           Row("u1", Text.Hula, Text.Acme, "productivity", 650, "monthly", "active", "weekly") }

\* lines 1339-1382: one pass of the inner loop's body, for an anchor and a
\* candidate; pushed tells whether line 1376 added the candidate
CallClassifyPair ==
  /\ call = NoCall
  /\ \E anchor \in ClassifierInputs, candidate \in ClassifierInputs :
       LET c == ClassifyPair(Stored(anchor, 1), Stored(candidate, 2))
       IN  call' = [fn |-> "classifyPair",
                    args |-> << Stored(anchor, 1), Stored(candidate, 2) >>,
                    ret |-> [threw |-> c.threw,
                             overlapScore |-> c.overlapScore,
                             overlapReason |-> c.overlapReason,
                             pushed |-> ~c.threw /\ IsOverlap(c.overlapScore)]]
  /\ UNCHANGED handlerVars

NextCalls ==
  \/ LookupServiceOverlaps
  \/ CallGetMonthlyCost
  \/ MapMonthlyCost
  \/ CallLevenshteinDistance
  \/ CallCalculateSimilarity
  \/ CallNormalizeServiceName
  \/ CallClassifyPair

SpecCalls == InitCalls /\ [][NextCalls]_vars

(***************************************************************************)
(* Properties.  The definitions below state what is checked of the model;  *)
(* they read the state and the source's constants, and restate the         *)
(* expected values on their own rather than through the operators above.   *)
(***************************************************************************)
Returned == pc = "done" /\ result.kind \in {"overlapDetection", "consolidationSuggestions"}

\* the rows of the table that belong to the caller and are active
CallerActiveRows == {k \in DOMAIN db : db[k].userId = caller /\ db[k].status = "active"}

\* the groups in the returned value
IsConsolidation(s) == s.type = "consolidation"

ReturnedGroups ==
  IF result.kind = "overlapDetection" THEN result.overlapGroups
  ELSE IF result.kind = "consolidationSuggestions"
    THEN LET picked == SelectSeq(result.suggestions, IsConsolidation)
         IN  [k \in 1..Len(picked) |-> picked[k].group]
    ELSE << >>

(***************************************************************************)
(* C1: for every list of active subscriptions, whatever their names and    *)
(* providers, the two handlers throw no exception.                         *)
(***************************************************************************)
C1_NoException == pc # "threw"

(***************************************************************************)
(* C2: with fewer than two active subscriptions of the caller, the handler *)
(* returns the empty result (no groups, savings 0, count 0, no             *)
(* recommendations or suggestions) and classifies no pair.                 *)
(***************************************************************************)
C2_FewSubsEmptyResult ==
  (pc = "done" /\ caller # NoUser /\ Cardinality(CallerActiveRows) < 2) =>
    /\ classified = << >>
    /\ overlapGroups = << >>
    /\ ReturnedGroups = << >>
    /\ handler = "getOverlapDetection" =>
         /\ result.overlapGroups = << >>
         /\ result.potentialSavings = 0
         /\ result.totalOverlaps = 0
         /\ result.recommendations = << >>
    /\ handler = "getConsolidationSuggestions" =>
         /\ result.suggestions = << >>
         /\ result.totalPotentialSavings = 0
         /\ result.overlapCount = 0

\* one active subscription of the caller, among other rows, and the query returned
C2_Witness ==
  /\ pc = "done"
  /\ caller = "u1"
  /\ handler = "getConsolidationSuggestions"
  /\ Cardinality(CallerActiveRows) = 1
  /\ Len(db) = 3
  /\ \E k \in CallerActiveRows :
       db[k].billingCycle = "monthly" /\ db[k].usageFrequency = "weekly"

\* every group built so far and every group returned
GroupsSeen ==
  {overlapGroups[k] : k \in DOMAIN overlapGroups}
    \cup {ReturnedGroups[k] : k \in DOMAIN ReturnedGroups}

(***************************************************************************)
(* C3: in every group the recommended member has the highest usage         *)
(* priority of all members (daily 4, weekly 3, monthly 2, rarely 1, never  *)
(* or missing 0) and, among the members of that priority, the lowest       *)
(* monthly cost.                                                           *)
(***************************************************************************)
ClaimedPriority(usageFrequency) ==
  CASE usageFrequency = "daily"   -> 4
    [] usageFrequency = "weekly"  -> 3
    [] usageFrequency = "monthly" -> 2
    [] usageFrequency = "rarely"  -> 1
    [] OTHER -> 0

C3_RecommendedIsBest ==
  \A g \in GroupsSeen :
    \A n \in DOMAIN g.services :
      LET member == g.services[n]
          best == ClaimedPriority(g.recommended.usageFrequency)
          mine == ClaimedPriority(member.usageFrequency)
      IN  /\ best >= mine
          /\ best = mine => g.recommended.monthlyCost <= member.monthlyCost

\* a returned group whose recommended member costs more than a member of lower priority
C3_Witness ==
  /\ Returned
  /\ \E k \in DOMAIN ReturnedGroups :
       LET g == ReturnedGroups[k]
       IN  \E n \in DOMAIN g.services :
             /\ ClaimedPriority(g.recommended.usageFrequency)
                  > ClaimedPriority(g.services[n].usageFrequency)
             /\ g.recommended.monthlyCost > g.services[n].monthlyCost

(***************************************************************************)
(* C4: the score of a classified pair (a, b) is 0.3 for equal categories,  *)
(* plus 0.7 when canonicalize(b.name) is in the competitor list of         *)
(* canonicalize(a.name), plus 0.5 when the canonical names are more than   *)
(* 0.7 similar, plus 0.4 when the lower-cased providers are more than 0.8  *)
(* similar; the reason is that of the first of the last three signals that *)
(* fired; and b becomes a partner of a exactly when the score is at least  *)
(* 0.6.  Scores are in tenths.                                             *)
(***************************************************************************)
SubById(id) == CHOOSE s \in {activeSubscriptions[k] : k \in DOMAIN activeSubscriptions} : s.id = id

\* the names and providers that stored subscriptions can carry
StoredNames == {row.name : row \in Catalogue}

StoredProviders == {row.provider : row \in Catalogue}

\* tables over those names and providers, each entry computed once
CompetitorTable ==
  [x \in StoredNames, y \in StoredNames |->
     LET ca == normalizeServiceName(x)
         cb == normalizeServiceName(y)
     IN  /\ ca \in DOMAIN SERVICE_OVERLAPS
         /\ \E n \in DOMAIN SERVICE_OVERLAPS[ca] : SERVICE_OVERLAPS[ca][n] = cb]

NameSimilarityTable ==
  [x \in StoredNames, y \in StoredNames |->
     calculateSimilarity(normalizeServiceName(x), normalizeServiceName(y))]

ProviderSimilarityTable ==
  [x \in StoredProviders, y \in StoredProviders |->
     calculateSimilarity(toLowerCase(x), toLowerCase(y))]

ClaimedCompetitor(a, b) == CompetitorTable[a.name, b.name]

NameSimilarity(a, b) == NameSimilarityTable[a.name, b.name]

ProviderSimilarity(a, b) == ProviderSimilarityTable[a.provider, b.provider]

ClaimedSimilarNames(a, b) == NameSimilarity(a, b).num * 10 > 7 * NameSimilarity(a, b).den

ClaimedSimilarProviders(a, b) ==
  ProviderSimilarity(a, b).num * 10 > 8 * ProviderSimilarity(a, b).den

ClaimedScore(a, b) ==
    (IF a.category = b.category THEN 3 ELSE 0)
  + (IF ClaimedCompetitor(a, b) THEN 7 ELSE 0)
  + (IF ClaimedSimilarNames(a, b) THEN 5 ELSE 0)
  + (IF ClaimedSimilarProviders(a, b) THEN 4 ELSE 0)

ClaimedReason(a, b) ==
  IF ClaimedCompetitor(a, b) THEN "Known competing service"
  ELSE IF ClaimedSimilarNames(a, b) THEN "Similar service names"
  ELSE IF ClaimedSimilarProviders(a, b) THEN "Same provider"
  ELSE ""

MemberIds(g) == {g.services[n].id : n \in DOMAIN g.services}

\* b was put in a group together with a
GroupedWith(aId, bId) ==
  \E k \in DOMAIN overlapGroups :
    aId \in MemberIds(overlapGroups[k]) /\ bId \in MemberIds(overlapGroups[k])

C4_ScoreReasonPartner ==
  \A n \in DOMAIN classified :
    LET e == classified[n]
        a == SubById(e.anchor)
        b == SubById(e.candidate)
    IN  ~e.threw =>
          /\ e.overlapScore = ClaimedScore(a, b)
          /\ e.overlapReason = ClaimedReason(a, b)
          /\ (e.overlapScore >= 6) <=> GroupedWith(e.anchor, e.candidate)

\* one pair at exactly 0.7 and 0.8 that scores 0.3 only, one pair joined by its provider
C4_Witness ==
  /\ pc = "done"
  /\ \E n \in DOMAIN classified :
       LET e == classified[n]
           a == SubById(e.anchor)
           b == SubById(e.candidate)
       IN  /\ NameSimilarity(a, b) = [num |-> 7, den |-> 10]
           /\ ProviderSimilarity(a, b) = [num |-> 4, den |-> 5]
           /\ e.overlapScore = 3
           /\ ~GroupedWith(e.anchor, e.candidate)
  /\ \E n \in DOMAIN classified :
       /\ classified[n].overlapScore = 7
       /\ classified[n].overlapReason = "Same provider"
       /\ GroupedWith(classified[n].anchor, classified[n].candidate)

\* an overlap edge as the claims define it: the claimed score is at least 0.6
ClaimedEdge(a, b) == ClaimedScore(a, b) >= 6

\* the position in input order of the subscription with this id
PosOf(id) == CHOOSE k \in DOMAIN activeSubscriptions : activeSubscriptions[k].id = id

MemberPositions(g) == {PosOf(id) : id \in MemberIds(g)}

\* the anchor of a group is its earliest member in input order
AnchorPos(g) == CHOOSE p \in MemberPositions(g) : \A q \in MemberPositions(g) : p <= q

\* the positions claimed as partners by some returned group
ClaimedPositions ==
  UNION {MemberPositions(ReturnedGroups[k]) \ {AnchorPos(ReturnedGroups[k])} :
           k \in DOMAIN ReturnedGroups}

GroupedPositions == UNION {MemberPositions(ReturnedGroups[k]) : k \in DOMAIN ReturnedGroups}

(***************************************************************************)
(* C5: for three active subscriptions A, B, C in input order where (A, B)  *)
(* and (B, C) are overlap edges and (A, C) is not, the result has exactly  *)
(* one group, its members are A and B, and C is in no group.               *)
(***************************************************************************)
ChainOfThree ==
  /\ Len(activeSubscriptions) = 3
  /\ ClaimedEdge(activeSubscriptions[1], activeSubscriptions[2])
  /\ ClaimedEdge(activeSubscriptions[2], activeSubscriptions[3])
  /\ ~ClaimedEdge(activeSubscriptions[1], activeSubscriptions[3])

C5_ChainGroupsFirstTwo ==
  (Returned /\ ChainOfThree) =>
    /\ Len(ReturnedGroups) = 1
    /\ MemberPositions(ReturnedGroups[1]) = {1, 2}
    /\ Len(ReturnedGroups[1].services) = 2
    /\ 3 \notin GroupedPositions

C5_Witness == Returned /\ ChainOfThree /\ Len(ReturnedGroups) = 1

(***************************************************************************)
(* C6: the groups are pairwise disjoint; a non-anchor member j belongs to  *)
(* the group of the earliest i < j that was not claimed by an earlier      *)
(* anchor and overlaps j; once claimed, j is classified against no later   *)
(* anchor and is never an anchor itself.                                   *)
(***************************************************************************)
EarlierUnclaimedOverlapping(j) ==
  {p \in 1..(j - 1) :
     /\ p \notin ClaimedPositions
     /\ ClaimedEdge(activeSubscriptions[p], activeSubscriptions[j])}

C6_FirstClaimWins ==
  Returned =>
    /\ \A k1, k2 \in DOMAIN ReturnedGroups :
         k1 # k2 => MemberIds(ReturnedGroups[k1]) \cap MemberIds(ReturnedGroups[k2]) = {}
    /\ \A k \in DOMAIN ReturnedGroups :
         LET g == ReturnedGroups[k]
         IN  /\ Cardinality(MemberIds(g)) = Len(g.services)
             /\ \A j \in MemberPositions(g) \ {AnchorPos(g)} :
                  /\ EarlierUnclaimedOverlapping(j) # {}
                  /\ \A p \in EarlierUnclaimedOverlapping(j) : AnchorPos(g) <= p
                  /\ AnchorPos(g) \in EarlierUnclaimedOverlapping(j)
                  /\ \A n \in DOMAIN classified :
                       /\ classified[n].candidate = activeSubscriptions[j].id
                            => PosOf(classified[n].anchor) <= AnchorPos(g)
                       /\ classified[n].anchor # activeSubscriptions[j].id

\* j overlaps two earlier unclaimed subscriptions and is in the group of the first
C6_Witness ==
  /\ Returned
  /\ \E k \in DOMAIN ReturnedGroups :
       \E j \in MemberPositions(ReturnedGroups[k]) \ {AnchorPos(ReturnedGroups[k])} :
         Cardinality(EarlierUnclaimedOverlapping(j)) >= 2

(***************************************************************************)
(* C7, as stated: a subscription that gathered no partners as the anchor   *)
(* is classified again, as a candidate, when a later subscription is the   *)
(* anchor.                                                                 *)
(***************************************************************************)
C7_RevisitedByLaterAnchor ==
  Returned =>
    \A k, m \in DOMAIN activeSubscriptions :
      (k < m /\ k \notin GroupedPositions /\ m \notin ClaimedPositions) =>
        \E n \in DOMAIN classified :
          /\ classified[n].anchor = activeSubscriptions[m].id
          /\ classified[n].candidate = activeSubscriptions[k].id

(***************************************************************************)
(* C7, amended: a subscription that gathered no partners as the anchor     *)
(* stays unprocessed and is not classified again: every classification     *)
(* pairs an anchor with a candidate later in input order, so the           *)
(* subscription is in no group.                                            *)
(***************************************************************************)
\* the anchors the outer loop has passed that are still unprocessed
LoneAnchors ==
  {k \in DOMAIN activeSubscriptions :
     k < i /\ activeSubscriptions[k].id \notin processedIds}

C7_LoneAnchorNeverRevisited ==
  /\ \A n \in DOMAIN classified :
       PosOf(classified[n].anchor) < PosOf(classified[n].candidate)
  /\ \A k \in LoneAnchors :
       /\ \A g \in GroupsSeen : activeSubscriptions[k].id \notin MemberIds(g)
       /\ \A n \in DOMAIN classified :
            classified[n].candidate = activeSubscriptions[k].id
              => PosOf(classified[n].anchor) < k

\* a lone anchor, and a later anchor that formed a group without it
C7_Witness ==
  /\ Returned
  /\ \E k \in LoneAnchors :
       \E g \in GroupsSeen : AnchorPos(g) > k

(***************************************************************************)
(* C8, as stated: any two distinct members of a group form an overlap      *)
(* edge.                                                                   *)
(***************************************************************************)
C8_MutuallyOverlapping ==
  Returned =>
    \A k \in DOMAIN ReturnedGroups :
      \A p, q \in MemberPositions(ReturnedGroups[k]) :
        p < q => ClaimedEdge(activeSubscriptions[p], activeSubscriptions[q])

(***************************************************************************)
(* C8, amended: every member of a group other than its anchor (the         *)
(* earliest member in input order) forms an overlap edge with the anchor;  *)
(* two members that are not the anchor need not overlap each other.        *)
(***************************************************************************)
C8_MembersOverlapAnchor ==
  Returned =>
    \A k \in DOMAIN ReturnedGroups :
      \A q \in MemberPositions(ReturnedGroups[k]) \ {AnchorPos(ReturnedGroups[k])} :
        ClaimedEdge(activeSubscriptions[AnchorPos(ReturnedGroups[k])], activeSubscriptions[q])

\* a returned group with two partners of the anchor that do not overlap each other
C8_Witness ==
  /\ Returned
  /\ \E k \in DOMAIN ReturnedGroups :
       \E p, q \in MemberPositions(ReturnedGroups[k]) \ {AnchorPos(ReturnedGroups[k])} :
         /\ p < q
         /\ ~ClaimedEdge(activeSubscriptions[p], activeSubscriptions[q])
         /\ ~ClaimedEdge(activeSubscriptions[q], activeSubscriptions[p])

(***************************************************************************)
(* C9: every group has at least two members; services is the member list   *)
(* (the anchor and its partners), sorted by usage priority descending and  *)
(* monthly cost ascending; recommended is its first element; toCancel is   *)
(* the rest in the same order, is not empty and does not hold recommended. *)
(***************************************************************************)
InSortedOrder(x, y) ==
  \/ ClaimedPriority(x.usageFrequency) > ClaimedPriority(y.usageFrequency)
  \/ /\ ClaimedPriority(x.usageFrequency) = ClaimedPriority(y.usageFrequency)
     /\ x.monthlyCost <= y.monthlyCost

\* the anchor and the candidates the record shows it overlapped
RecordedMembers(anchorId) ==
  {anchorId} \cup
  {classified[n].candidate : n \in {m \in DOMAIN classified :
      /\ classified[m].anchor = anchorId
      /\ ~classified[m].threw
      /\ classified[m].overlapScore >= 6}}

C9_GroupShape ==
  \A g \in GroupsSeen :
    /\ Len(g.services) >= 2
    /\ Cardinality(MemberIds(g)) = Len(g.services)
    /\ MemberIds(g) = RecordedMembers(activeSubscriptions[AnchorPos(g)].id)
    /\ \A n \in 1..(Len(g.services) - 1) : InSortedOrder(g.services[n], g.services[n + 1])
    /\ g.recommended = g.services[1]
    /\ g.toCancel = [n \in 1..(Len(g.services) - 1) |-> g.services[n + 1]]
    /\ Len(g.toCancel) >= 1
    /\ \A n \in DOMAIN g.toCancel : g.toCancel[n].id # g.recommended.id

\* a returned group of three whose recommended member is not its anchor
C9_Witness ==
  /\ Returned
  /\ \E k \in DOMAIN ReturnedGroups :
       /\ Len(ReturnedGroups[k].services) = 3
       /\ PosOf(ReturnedGroups[k].recommended.id) # AnchorPos(ReturnedGroups[k])
       /\ Len(ReturnedGroups[k].toCancel) = 2

(***************************************************************************)
(* C10: the potentialSavings of a group is the sum of the monthly costs of *)
(* its toCancel members, that is the monthly cost of all members less that *)
(* of the recommended one.  Amounts are in 1/CostScale cents.              *)
(***************************************************************************)
RECURSIVE TotalMonthly(_, _)
TotalMonthly(services, n) ==
  IF n = 0 THEN 0 ELSE TotalMonthly(services, n - 1) + services[n].monthlyCost

C10_SavingsAreCancelledCosts ==
  \A g \in GroupsSeen :
    /\ g.potentialSavings = TotalMonthly(g.toCancel, Len(g.toCancel))
    /\ g.potentialSavings
         = TotalMonthly(g.services, Len(g.services)) - g.recommended.monthlyCost

\* 1599 and 799 cents a month, the 1599 one recommended: savings 799
C10_Witness ==
  /\ Returned
  /\ \E k \in DOMAIN ReturnedGroups :
       LET g == ReturnedGroups[k]
       IN  /\ Len(g.services) = 2
           /\ g.recommended.monthlyCost = 1599 * CostScale
           /\ g.toCancel[1].monthlyCost = 799 * CostScale
           /\ g.potentialSavings = 799 * CostScale

(***************************************************************************)
(* C11: in every result the total potential savings is the sum of the      *)
(* potentialSavings of the returned groups, the overlap count is the       *)
(* number of returned groups, and there is exactly one consolidation       *)
(* recommendation per group, in group order, each holding its own group.   *)
(***************************************************************************)
RECURSIVE TotalSavings(_, _)
TotalSavings(groups, n) ==
  IF n = 0 THEN 0 ELSE TotalSavings(groups, n - 1) + groups[n].potentialSavings

\* the consolidation recommendations of the result, in the order returned
ConsolidationRecommendations ==
  IF result.kind = "overlapDetection" THEN result.recommendations
  ELSE SelectSeq(result.suggestions, IsConsolidation)

ReturnedTotal ==
  IF result.kind = "overlapDetection" THEN result.potentialSavings
  ELSE result.totalPotentialSavings

ReturnedCount ==
  IF result.kind = "overlapDetection" THEN result.totalOverlaps
  ELSE result.overlapCount

C11_TotalsAndRecommendations ==
  Returned =>
    /\ result.kind = "overlapDetection" => result.overlapGroups = overlapGroups
    /\ ReturnedTotal = TotalSavings(overlapGroups, Len(overlapGroups))
    /\ ReturnedCount = Len(overlapGroups)
    /\ Len(ConsolidationRecommendations) = Len(overlapGroups)
    /\ \A k \in DOMAIN overlapGroups :
         /\ ConsolidationRecommendations[k].type = "consolidation"
         /\ ConsolidationRecommendations[k].group = overlapGroups[k]
    /\ result.kind = "consolidationSuggestions" =>
         \A k \in DOMAIN result.suggestions :
           IsConsolidation(result.suggestions[k]) => k <= Len(overlapGroups)

\* two groups with different savings, 799 and 1200 cents a month
C11_Witness ==
  /\ Returned
  /\ Len(overlapGroups) = 2
  /\ overlapGroups[1].potentialSavings = 799 * CostScale
  /\ overlapGroups[2].potentialSavings = 1200 * CostScale
  /\ ReturnedTotal = 1999 * CostScale
  /\ ReturnedCount = 2

(***************************************************************************)
(* C12: the overlapReason of a group is the reason of the edge from its    *)
(* anchor to the partner that comes earliest in input order, also when a   *)
(* later partner of the same anchor matched through a higher-priority      *)
(* signal.                                                                 *)
(***************************************************************************)
PartnerPositions(g) == MemberPositions(g) \ {AnchorPos(g)}

FirstPartnerPos(g) ==
  CHOOSE p \in PartnerPositions(g) : \A q \in PartnerPositions(g) : p <= q

ReasonOfEdge(p, q) == ClaimedReason(activeSubscriptions[p], activeSubscriptions[q])

C12_ReasonOfFirstEdge ==
  \A g \in GroupsSeen :
    g.overlapReason = ReasonOfEdge(AnchorPos(g), FirstPartnerPos(g))

\* the first partner matched by name, a later one is a known competitor
C12_Witness ==
  /\ Returned
  /\ \E k \in DOMAIN ReturnedGroups :
       LET g == ReturnedGroups[k]
       IN  /\ g.overlapReason = "Similar service names"
           /\ \E q \in PartnerPositions(g) :
                /\ q > FirstPartnerPos(g)
                /\ ReasonOfEdge(AnchorPos(g), q) = "Known competing service"

(***************************************************************************)
(* C13: the fallback reason 'Similar functionality' is never returned:     *)
(* every group has one of the three signal reasons, because every          *)
(* classified pair that reaches 0.6 carries the reason of a signal.        *)
(***************************************************************************)
SignalReasons == {"Known competing service", "Similar service names", "Same provider"}

C13_FallbackUnreachable ==
  /\ \A g \in GroupsSeen : g.overlapReason \in SignalReasons
  /\ \A n \in DOMAIN classified :
       (~classified[n].threw /\ classified[n].overlapScore >= 6)
         => classified[n].overlapReason \in SignalReasons

\* a pair that shares its category only stays apart while a group is returned
C13_Witness ==
  /\ Returned
  /\ ReturnedGroups # << >>
  /\ \E n \in DOMAIN classified :
       /\ classified[n].overlapScore = 3
       /\ classified[n].overlapReason = ""
       /\ ~GroupedWith(classified[n].anchor, classified[n].candidate)

(***************************************************************************)
(* C14: the competitor map is symmetric: whenever B is in the list of A,   *)
(* B is a key of the map and A is in the list of B.                        *)
(***************************************************************************)
ListedUnder(key) ==
  IF key \in DOMAIN SERVICE_OVERLAPS
    THEN {SERVICE_OVERLAPS[key][n] : n \in DOMAIN SERVICE_OVERLAPS[key]}
    ELSE {}

\* the names a lookup returned
LookedUp == {call.ret.items[n] : n \in DOMAIN call.ret.items}

C14_MapSymmetric ==
  /\ \A a \in DOMAIN SERVICE_OVERLAPS :
       \A b \in ListedUnder(a) : b \in DOMAIN SERVICE_OVERLAPS /\ a \in ListedUnder(b)
  /\ call.fn = "SERVICE_OVERLAPS" =>
       /\ \A b \in LookedUp : call.args[1] \in ListedUnder(b)
       /\ \A b \in DOMAIN SERVICE_OVERLAPS :
            call.args[1] \in ListedUnder(b) => b \in LookedUp

\* the list of netflix holds hulu, and the list of hulu holds netflix
C14_Witness ==
  /\ call.fn = "SERVICE_OVERLAPS"
  /\ call.args[1] = normalizeServiceName(Text.Netflix)
  /\ normalizeServiceName(Text.Hulu) \in LookedUp
  /\ Cardinality(LookedUp) = 6

(***************************************************************************)
(* C15: levenshteinDistance(s, t) is the unit-cost edit distance of s and  *)
(* t: the least number of insertions, deletions and substitutions of one   *)
(* character that turn s into t, also when s or t is empty.                *)
(***************************************************************************)
Least(numbers) == CHOOSE n \in numbers : \A m \in numbers : n <= m

\* the edit distance by its defining recurrence on the first characters
RECURSIVE EditDistance(_, _)
EditDistance(s, t) ==
  IF s = << >> THEN Len(t)
  ELSE IF t = << >> THEN Len(s)
  ELSE Least({ EditDistance(Tail(s), t) + 1,
               EditDistance(s, Tail(t)) + 1,
               EditDistance(Tail(s), Tail(t)) + (IF Head(s) = Head(t) THEN 0 ELSE 1) })

C15_LevenshteinIsEditDistance ==
  call.fn = "levenshteinDistance" =>
    call.ret = EditDistance(call.args[1], call.args[2])

\* "abb" to "ba" takes a deletion and a substitution
C15_Witness ==
  /\ call.fn = "levenshteinDistance"
  /\ call.args = << <<"a", "b", "b">>, <<"b", "a">> >>
  /\ call.ret = 2

(***************************************************************************)
(* C16: calculateSimilarity(a, b) = calculateSimilarity(b, a) for all      *)
(* strings a and b, those of equal length included.                        *)
(***************************************************************************)
SameFraction(x, y) == x.num * y.den = y.num * x.den

C16_SimilaritySymmetric ==
  call.fn = "calculateSimilarity" =>
    SameFraction(call.ret, calculateSimilarity(call.args[2], call.args[1]))

\* two different strings of equal length, 1/3 similar
C16_Witness ==
  /\ call.fn = "calculateSimilarity"
  /\ call.args = << <<"a", "b", "a">>, <<"b", "a", "b">> >>
  /\ SameFraction(call.ret, [num |-> 1, den |-> 3])

(***************************************************************************)
(* C17: calculateSimilarity(a, b) is in [0, 1]; it is 1 when a = b, both   *)
(* empty included, and 0 when exactly one of a and b is empty.             *)
(***************************************************************************)
C17_SimilarityBounds ==
  call.fn = "calculateSimilarity" =>
    LET a == call.args[1]
        b == call.args[2]
    IN  /\ call.ret.den > 0
        /\ 0 <= call.ret.num
        /\ call.ret.num <= call.ret.den
        /\ a = b => call.ret.num = call.ret.den
        /\ ((a = << >>) # (b = << >>)) => call.ret.num = 0

\* the empty string against a string of three characters: similarity 0
C17_Witness ==
  /\ call.fn = "calculateSimilarity"
  /\ call.args = << << >>, <<"a", "b", "a">> >>
  /\ call.ret.num = 0

(***************************************************************************)
(* C18: normalizeServiceName is idempotent and ignores letter case and     *)
(* white space at either end; normalize('Netflix ') = normalize('netflix');*)
(* its output holds only lower-case letters, digits and '_', with no '_'   *)
(* at either end and no two '_' in a row.                                  *)
(***************************************************************************)
LowerCaseLetters == {LowerCase[k] : k \in DOMAIN LowerCase}

\* every letter replaced by the same letter in the other case
OtherCaseChar(c) ==
  IF \E k \in DOMAIN UpperCase : UpperCase[k] = c
    THEN LowerCase[CHOOSE k \in DOMAIN UpperCase : UpperCase[k] = c]
    ELSE IF \E k \in DOMAIN LowerCase : LowerCase[k] = c
      THEN UpperCase[CHOOSE k \in DOMAIN LowerCase : LowerCase[k] = c]
      ELSE c

OtherCase(s) == [k \in DOMAIN s |-> OtherCaseChar(s[k])]

C18_NormalizeIdempotent ==
  /\ normalizeServiceName(Text.NetflixSpace)
       = normalizeServiceName(<<"n", "e", "t", "f", "l", "i", "x">>)
  /\ call.fn = "normalizeServiceName" =>
       LET x == call.args[1]
           y == call.ret
       IN  /\ normalizeServiceName(y) = y
           /\ normalizeServiceName(OtherCase(x)) = y
           /\ normalizeServiceName(<< " " >> \o x) = y
           /\ normalizeServiceName(x \o << " " >>) = y
           /\ \A k \in DOMAIN y : y[k] \in LowerCaseLetters \cup Digits \cup {"_"}
           /\ y # << >> => (y[1] # "_" /\ y[Len(y)] # "_")
           /\ \A k \in 1..(Len(y) - 1) : ~(y[k] = "_" /\ y[k + 1] = "_")

\* "N _n": the white space and the '_' after it end as one '_'
C18_Witness ==
  /\ call.fn = "normalizeServiceName"
  /\ call.args[1] = <<"N", " ", "_", "n">>
  /\ call.ret = <<"n", "_", "n">>

(***************************************************************************)
(* C19: the monthly cost of a cost c >= 0 is c/12 for yearly, c/3 for      *)
(* quarterly, c/6 for biannual, c * 4.33 for weekly and c for monthly and  *)
(* for any other billing cycle, exactly; it is not negative, it does not   *)
(* depend on currency or category, and getMonthlyCost returns the value    *)
(* of the expression the overlap engine uses.  Amounts are in 1/CostScale  *)
(* cents.                                                                  *)
(***************************************************************************)
IsClaimedMonthly(amount, c, billingCycle) ==
  CASE billingCycle = "yearly"    -> 12 * amount = c * CostScale
    [] billingCycle = "quarterly" -> 3 * amount = c * CostScale
    [] billingCycle = "biannual"  -> 6 * amount = c * CostScale
    [] billingCycle = "weekly"    -> 100 * amount = 433 * c * CostScale
    [] OTHER                      -> amount = c * CostScale

C19_MonthlyCostMapping ==
  /\ call.fn = "getMonthlyCost" =>
       /\ IsClaimedMonthly(call.ret, call.args[1], call.args[2])
       /\ call.ret >= 0
       /\ \A currency \in Currencies, category \in Categories :
            call.ret = WithMonthlyCost(Priced(call.args[1], call.args[2],
                                              currency, category)).monthlyCost
  /\ call.fn = "monthlyCost" =>
       /\ IsClaimedMonthly(call.ret, call.args[1].cost, call.args[1].billingCycle)
       /\ call.ret >= 0
       /\ call.ret = getMonthlyCost(call.args[1].cost, call.args[1].billingCycle)

\* 12 cents a week are 51.96 cents a month
C19_Witness ==
  /\ call.fn = "getMonthlyCost"
  /\ call.args = << 12, "weekly" >>
  /\ 100 * call.ret = 5196 * CostScale

(***************************************************************************)
(* C20: after any sequence of create, update, cancel and delete            *)
(* operations by any users, every member of every group built for or       *)
(* returned to a user is a subscription of that user that is active in     *)
(* the table the query read; no cancelled, paused or trial subscription    *)
(* and no subscription of another user is in a group or among the costs    *)
(* that make its savings.                                                  *)
(***************************************************************************)
MembersOf(g) ==
  {g.services[n] : n \in DOMAIN g.services}
    \cup {g.toCancel[n] : n \in DOMAIN g.toCancel}
    \cup {g.recommended}

IsActiveInTableOf(userId, id) ==
  \E k \in DOMAIN db :
    db[k].id = id /\ db[k].userId = userId /\ db[k].status = "active"

C20_OnlyCallersActive ==
  \A g \in GroupsSeen :
    /\ \A member \in MembersOf(g) : IsActiveInTableOf(caller, member.id)
    /\ g.potentialSavings = TotalMonthly(g.toCancel, Len(g.toCancel))

\* a group is returned while the caller's cancelled subscription to a
\* competitor of its members is in the table
C20_Witness ==
  /\ Returned
  /\ ReturnedGroups # << >>
  /\ \E k \in DOMAIN db :
       /\ db[k].userId = caller
       /\ db[k].status = "cancelled"
       /\ db[k].name = Text.Hulu
       /\ \A g \in GroupsSeen : \A member \in MembersOf(g) : member.id # db[k].id

(***************************************************************************)
(* C21                                                                     *)
(***************************************************************************)
\* a step of a query: every step that does not leave the model between calls
QueryStep == pc' # "idle"

\* the fields createSubscription stores, with the ones updateUsage adds
StoredFields == DOMAIN Stored(CHOOSE row \in Catalogue : TRUE, 1)

\* C21: the two queries write nothing: every step of getOverlapDetection and
\* of getConsolidationSuggestions, from the invocation to the return or the
\* exception, leaves the subscriptions table (its documents, their order and
\* every field value) and the count of committed mutations as they were,
\* and no stored document ever carries a monthlyCost field: the monthly
\* cost is attached to the copies in the result only
C21_QueriesWriteNothing ==
  /\ [][QueryStep => db' = db /\ clock' = clock]_vars
  /\ [](\A k \in DOMAIN db : DOMAIN db[k] = StoredFields)

\* a query returned a group, whose members carry a monthly cost, over a
\* table that mutations had changed before, and the stored documents of
\* the members carry none
C21_Witness ==
  /\ Returned
  /\ clock > 0
  /\ Len(ReturnedGroups) > 0
  /\ \A g \in 1..Len(ReturnedGroups) :
       \A s \in 1..Len(ReturnedGroups[g].services) :
         /\ "monthlyCost" \in DOMAIN ReturnedGroups[g].services[s]
         /\ \E k \in DOMAIN db :
              /\ db[k].id = ReturnedGroups[g].services[s].id
              /\ "monthlyCost" \notin DOMAIN db[k]

(***************************************************************************)
(* C22                                                                     *)
(***************************************************************************)
\* what an invocation has to end with, run alone on the list it read
EndsAsAlone(inv) ==
  /\ inv.pc \in {"done", "threw"}
  /\ inv.caller # NoUser
  => /\ inv.pc = RunAlone(inv.handler, inv.activeSubscriptions).pc
     /\ inv.pc = "done" =>
          inv.result = RunAlone(inv.handler, inv.activeSubscriptions).result

\* the first invocation, as a record
FirstInvocation ==
  [pc |-> pc, handler |-> handler, caller |-> caller,
   activeSubscriptions |-> activeSubscriptions, result |-> result]

\* C22: with two invocations of the queries in flight at once, for the same
\* user or for different users and with their steps interleaved in any
\* order, each invocation ends as it ends when it runs alone on the list of
\* active subscriptions it read: it returns the same result, or throws where
\* the lone run throws
C22_InterleavingChangesNothing ==
  /\ EndsAsAlone(FirstInvocation)
  /\ EndsAsAlone(other)

\* both invocations are in the middle of their loops over the same user's
\* list, each with a group built and a processed set of its own
C22_Witness ==
  /\ pc = "loop"
  /\ other.pc = "loop"
  /\ caller = other.caller
  /\ i = 2
  /\ other.i = 3
  /\ Len(overlapGroups) = 1
  /\ Len(other.overlapGroups) = 1
  /\ processedIds # {}
  /\ other.processedIds # {}

(***************************************************************************)
(* C23                                                                     *)
(***************************************************************************)
\* detection and suggestions are what getOverlapDetection and
\* getConsolidationSuggestions ended with on one list of subscriptions
SameClustering(detection, suggestions) ==
  /\ detection.pc \in {"done", "threw"}
  /\ suggestions.pc \in {"done", "threw"}
  /\ detection.handler = "getOverlapDetection"
  /\ suggestions.handler = "getConsolidationSuggestions"
  /\ detection.caller # NoUser
  /\ suggestions.caller # NoUser
  /\ detection.activeSubscriptions = suggestions.activeSubscriptions
  => /\ detection.pc = suggestions.pc
     /\ detection.pc = "done" =>
          LET consolidations == SelectSeq(suggestions.result.suggestions, IsConsolidation)
          IN  /\ suggestions.overlapGroups = detection.result.overlapGroups
              /\ suggestions.result.totalPotentialSavings = detection.result.potentialSavings
              /\ suggestions.result.overlapCount = detection.result.totalOverlaps
              /\ consolidations = detection.result.recommendations

\* the first invocation with the groups it built
FirstWithGroups ==
  [pc |-> pc, handler |-> handler, caller |-> caller,
   activeSubscriptions |-> activeSubscriptions, overlapGroups |-> overlapGroups,
   result |-> result]

StatusOf(table, id) ==
  IF \E k \in DOMAIN table : table[k].id = id
    THEN table[CHOOSE k \in DOMAIN table : table[k].id = id].status
    ELSE "none"

\* the document is a member of a group built or returned
InSomeGroup(id) == \E g \in GroupsSeen : \E member \in MembersOf(g) : member.id = id

\* C24: a subscription that cancelSubscription succeeded for stays out of
\* every group of every later query until its status is set back to
\* active.  Step by step: a successful cancelSubscription leaves the status
\* "cancelled"; a status other than active becomes active only by an
\* updateSubscription that sets it, and a deleted document does not come
\* back; and a subscription that is in a group of a query, as recommended,
\* in toCancel or in services, has the status active in the table
C24_CancelledStaysOut ==
  /\ [][\A userId \in Users, id \in 1..MaxOps :
          cancelSubscription(userId, id) => StatusOf(db', id) = "cancelled"]_vars
  /\ [][\A id \in 1..MaxOps :
          /\ StatusOf(db, id) \in Statuses \ {"active"} /\ StatusOf(db', id) = "active"
               => \E userId \in Users :
                    updateSubscription(userId, id, [status |-> "active"])
          /\ id <= clock /\ StatusOf(db, id) = "none" => StatusOf(db', id) = "none"]_vars
  /\ [](\A id \in 1..MaxOps : InSomeGroup(id) => StatusOf(db, id) = "active")

\* a query returns a group of two of the caller's subscriptions while a
\* third one, to a service that overlaps them, is cancelled
C24_Witness ==
  /\ Returned
  /\ Len(ReturnedGroups) = 1
  /\ Len(ReturnedGroups[1].services) = 2
  /\ \E k \in DOMAIN db :
       /\ db[k].userId = caller
       /\ db[k].status = "cancelled"
       /\ db[k].name \in {Text.Netflix, Text.Hulu}
       /\ ~InSomeGroup(db[k].id)

(***************************************************************************)
(* ConsolidationScreen.tsx: what the screen shows of the value that        *)
(* getOverlapDetection returned.                                           *)
(***************************************************************************)
\* the value of a property that an object does not have
undefined == "undefined"

\* obj.name
Property(obj, name) == IF name \in DOMAIN obj THEN obj[name] ELSE undefined

\* ConsolidationScreen.tsx lines 322-329: the groups rendered with
\* renderOverlapGroup under the heading Service Overlaps, none when the
\* condition of line 322 is falsy
ServiceOverlapsSection(overlapData) ==
  LET groups == Property(overlapData, "groups")
  IN  IF groups # undefined /\ Len(groups) > 0 THEN groups ELSE << >>

(***************************************************************************)
(* C25                                                                     *)
(***************************************************************************)
\* C25: when getOverlapDetection returns one or more overlap groups, the
\* Service Overlaps section of ConsolidationScreen shows every one of them:
\* the screen reads the groups from the property the query returns them in
C25_ScreenShowsReturnedGroups ==
  /\ pc = "done"
  /\ result.kind = "overlapDetection"
  /\ Len(result.overlapGroups) > 0
  => ServiceOverlapsSection(result) = result.overlapGroups

(***************************************************************************)
(* C26                                                                     *)
(***************************************************************************)
\* the combinations of signals the claim lists as overlap edges
ClaimedCombination(sameCategory, knownCompetitor, similarNames, similarProviders) ==
  \/ knownCompetitor
  \/ sameCategory /\ (similarNames \/ similarProviders)
  \/ similarNames /\ similarProviders

\* every outcome of the four tests
AllSignals ==
  [sameCategory : BOOLEAN, knownCompetitor : BOOLEAN,
   similarNames : BOOLEAN, similarProviders : BOOLEAN]

\* C26: a classification that yields a score adds the candidate to the
\* anchor's partners exactly when the competitor map lists the candidate,
\* or the categories are equal and the names or the providers are similar,
\* or both the names and the providers are similar; so an equal category,
\* similar names or similar providers alone add nothing.  No combination
\* of the four signals scores exactly 0.6, and every score is between 0
\* and 1.9
C26_EdgeIffSignals ==
  /\ call.fn = "classifyPair" /\ ~call.ret.threw =>
       LET a == call.args[1]
           b == call.args[2]
       IN  /\ call.ret.pushed <=>
                ClaimedCombination(a.category = b.category, ClaimedCompetitor(a, b),
                                   ClaimedSimilarNames(a, b),
                                   ClaimedSimilarProviders(a, b))
           /\ call.ret.overlapScore # 6
           /\ call.ret.overlapScore \in 0..19
  /\ \A signals \in AllSignals :
       /\ OverlapScore(signals) # 6
       /\ OverlapScore(signals) \in 0..19
       /\ IsOverlap(OverlapScore(signals)) <=>
            ClaimedCombination(signals.sameCategory, signals.knownCompetitor,
                               signals.similarNames, signals.similarProviders)

\* two services of different categories and providers whose names are
\* similar, hulu and hula: the score is 0.5 and the candidate is not added
C26_Witness ==
  /\ call.fn = "classifyPair"
  /\ ~call.ret.threw
  /\ call.args[1].category # call.args[2].category
  /\ ~ClaimedCompetitor(call.args[1], call.args[2])
  /\ ClaimedSimilarNames(call.args[1], call.args[2])
  /\ ~ClaimedSimilarProviders(call.args[1], call.args[2])
  /\ call.ret.overlapScore = 5
  /\ ~call.ret.pushed

(***************************************************************************)
(* C27                                                                     *)
(***************************************************************************)
\* the positions of the subscriptions that are in no returned group
UngroupedPositions == DOMAIN activeSubscriptions \ GroupedPositions

\* the two subscriptions overlap, whichever is taken as the anchor
Overlapping(p, q) ==
  \/ ClaimedEdge(activeSubscriptions[p], activeSubscriptions[q])
  \/ ClaimedEdge(activeSubscriptions[q], activeSubscriptions[p])

\* C27: in every result, no two subscriptions left out of all groups form
\* an overlap edge with the earlier one as the anchor, and every
\* subscription that a left-out subscription overlaps was claimed as a
\* partner by a group
C27_MaximalAmongUngrouped ==
  Returned =>
    /\ \A p \in UngroupedPositions, q \in UngroupedPositions :
         p < q => ~ClaimedEdge(activeSubscriptions[p], activeSubscriptions[q])
    /\ \A p \in UngroupedPositions, q \in DOMAIN activeSubscriptions :
         p # q /\ Overlapping(p, q) => q \in ClaimedPositions

\* a subscription is left out although it overlaps a later one: an earlier
\* anchor had claimed that one as its partner
C27_Witness ==
  /\ Returned
  /\ Len(ReturnedGroups) = 1
  /\ \E p \in UngroupedPositions : \E q \in ClaimedPositions : p < q /\ Overlapping(p, q)

(***************************************************************************)
(* C28                                                                     *)
(***************************************************************************)
\* the classification of the same two subscriptions with the candidate as
\* the anchor
Reversed == ClassifyPair(call.args[2], call.args[1])

\* C28: classifying (a, b) and (b, a) gives the same outcome, that is the
\* same score and the same reason, so that the two subscriptions form an
\* overlap edge whichever of them is the anchor
C28_ClassifierSymmetric ==
  call.fn = "classifyPair" =>
    /\ call.ret.threw = Reversed.threw
    /\ call.ret.overlapScore = Reversed.overlapScore
    /\ call.ret.overlapReason = Reversed.overlapReason
    /\ call.ret.pushed = (~Reversed.threw /\ IsOverlap(Reversed.overlapScore))

(***************************************************************************)
(* C29                                                                     *)
(***************************************************************************)
\* getOverlapDetection has returned to the user whose recommendations were
\* applied before it ran
DetectedAfterApplying ==
  /\ pc = "done"
  /\ handler = "getOverlapDetection"
  /\ call.fn = "cancelSubscription"
  /\ caller = call.userId

\* C29 as the specification states it: once every toCancel member of every
\* returned group has been cancelled and nothing else has changed, the next
\* overlap detection of that user returns no overlap group
C29_NoGroupsAfterApplying ==
  DetectedAfterApplying => Len(result.overlapGroups) = 0

\* C29: once every toCancel member of every returned group has been
\* cancelled and nothing else has changed, the next overlap detection of
\* that user returns no cancelled subscription, and every group it returns
\* has a member that the applied result recommended: the subscriptions
\* that result left out form no group among themselves
C29_NewGroupsHoldRecommended ==
  DetectedAfterApplying =>
    \A k \in DOMAIN result.overlapGroups :
      /\ MemberIds(result.overlapGroups[k]) \cap call.args = {}
      /\ MemberIds(result.overlapGroups[k]) \cap call.kept # {}

\* Netflix, Hulu, Hula: Netflix was cancelled for the more used Hulu, and
\* the next detection groups Hulu with Hula, which had been left out
C29_Witness ==
  /\ DetectedAfterApplying
  /\ Len(result.overlapGroups) = 1
  /\ \E kept \in call.kept : \E left \in MemberIds(result.overlapGroups[1]) :
       /\ kept \in MemberIds(result.overlapGroups[1])
       /\ left \notin call.kept
       /\ left \notin call.args

(***************************************************************************)
(* C30                                                                     *)
(***************************************************************************)
\* the ids of the subscriptions that the suggestions of one type are about
SuggestedIds(type) ==
  {result.suggestions[n].subscription.id :
     n \in {m \in DOMAIN result.suggestions : result.suggestions[m].type = type}}

\* the number of suggestions of one type
SuggestedCount(type) ==
  Cardinality({m \in DOMAIN result.suggestions : result.suggestions[m].type = type})

\* the caller's active subscriptions that are rarely or never used and cost
\* more than 1000 a month
ClaimedUnused ==
  {db[k].id : k \in {n \in CallerActiveRows :
                       /\ db[n].usageFrequency \in {"rarely", "never"}
                       /\ MonthlyCost(db[n]) > 1000 * CostScale}}

\* the caller's active subscriptions billed monthly and used daily or weekly
ClaimedAnnual ==
  {db[k].id : k \in {n \in CallerActiveRows :
                       /\ db[n].billingCycle = "monthly"
                       /\ db[n].usageFrequency \in {"daily", "weekly"}}}

=============================================================================
